---- MODULE Spec2Model ----
(***************************************************************************)
(* Model of the job store of whisper_gui_web.py: the AppState object, the  *)
(* request handlers of the threaded HTTP server (preflight, start, retry,  *)
(* cancel, snapshot), the external processes they launch and the three     *)
(* per-run tasks (line pump, exit waiter, heartbeat).                      *)
(*                                                                         *)
(* Every `with self.lock:` block of the source is one atomic action; the   *)
(* code between two blocks runs with the lock released, so other threads   *)
(* interleave exactly at the boundaries between the actions below.         *)
(***************************************************************************)
EXTENDS Integers, Sequences, FiniteSets, TLC

VARIABLES
    state,      \* the fields of the AppState object
    procs,      \* the external processes launched so far (subprocess.Popen)
    tasks,      \* position of the exit waiter and the heartbeat of each process
    thr,        \* position and locals of each request-handler thread
    resp,       \* the (ok, message) pair a handler returned in the last step
    snap,       \* the dictionary snapshot() returned in the last step
    fn,         \* input and result of the pure function under study
    files,      \* the retry_targets files written to LOGS_DIR
    fs          \* the output file of the run and the run logs on disk

vars == <<state, procs, tasks, thr, resp, snap, fn, files, fs>>

----------------------------------------------------------------------------
(* Bounds of the model *)

MaxProcs == 2       \* processes launched in one behaviour
MaxLines == 2       \* lines the processes write in one behaviour
HostCpuCount == 8   \* os.cpu_count() of the host in the store model
DurSpread == 2      \* durations sampled within this distance of a bucket edge
MaxTokens == 2      \* tokens in one range text

\* The request-handler threads of the ThreadingHTTPServer that are busy at
\* the same time.
Threads == {1, 2}
ProcIds == 1..MaxProcs

----------------------------------------------------------------------------
(* Program constants *)

PRESETS == {"x1", "x4", "x8", "x16"}
PRIORITIES == {"accuracy", "balanced", "speed"}
MODE_STRATEGIES == {"auto", "custom"}
CUSTOM_MODES == {"single-pass", "segmented"}
RECOVERY_MODES == {"failed", "time_range"}

\* Optional values: <<>> is None, <<v>> is the value v.
None == <<>>
Some(v) == <<v>>

Min(a, b) == IF a < b THEN a ELSE b
Max(a, b) == IF a > b THEN a ELSE b

\* parse_int_clamped: an unparsable or missing value (None) takes the default.
parse_int_clamped(value, default, min_value, max_value) ==
    LET n == IF value = None THEN default ELSE value[1]
    IN  Max(min_value, Min(max_value, n))

\* to_float: None and unparsable values give None.  A duration is
\* [kind |-> "none" | "bad" | "num", v |-> seconds].
to_float(value) ==
    IF value.kind = "num" THEN Some(value.v) ELSE None

\* A policy whose priority and preset adjustments forget the cap of 8 jobs.
recommend_auto_mode_uncapped(duration_sec, preset, priority, cpu_count) ==
    LET f == to_float(duration_sec)
        duration == IF f = None THEN 0 ELSE f[1]
        cpu == Max(2, IF cpu_count = 0 THEN 4 ELSE cpu_count)
        half_cpu == Max(2, cpu \div 2)
        prio == IF priority \in PRIORITIES THEN priority ELSE "balanced"
        model_preset == IF preset \in PRESETS THEN preset ELSE "x4"
        base == IF duration >= 120 * 60 THEN [jobs |-> Min(8, Max(4, half_cpu)), seg_t |-> 90]
                ELSE IF duration >= 60 * 60 THEN [jobs |-> Min(6, Max(4, half_cpu)), seg_t |-> 120]
                ELSE IF duration >= 30 * 60 THEN [jobs |-> Min(5, Max(3, half_cpu)), seg_t |-> 150]
                ELSE [jobs |-> Min(4, Max(2, half_cpu)), seg_t |-> 180]
        byPrio == IF prio = "accuracy"
                    THEN [jobs |-> Max(2, base.jobs - 1), seg_t |-> Min(300, base.seg_t + 30)]
                  ELSE IF prio = "speed"
                    THEN [jobs |-> base.jobs + 1, seg_t |-> Max(60, base.seg_t - 30)]
                  ELSE base
        byPreset == IF model_preset = "x1"
                      THEN [jobs |-> Max(2, byPrio.jobs - 1), seg_t |-> Min(300, byPrio.seg_t + 30)]
                    ELSE IF model_preset = "x16"
                      THEN [jobs |-> byPrio.jobs + 1, seg_t |-> Max(60, byPrio.seg_t - 30)]
                    ELSE byPrio
    IN  IF duration >= 15 * 60
          THEN [mode |-> "segmented", jobs |-> byPreset.jobs,
                segment_time |-> byPreset.seg_t, reason |-> <<prio>>]
          ELSE [mode |-> "single-pass", jobs |-> 1, segment_time |-> 240,
                reason |-> <<"under15min">>]

\* A policy that splits from 10 minutes on.
recommend_auto_mode_from_10min(duration_sec, preset, priority, cpu_count) ==
    LET f == to_float(duration_sec)
        duration == IF f = None THEN 0 ELSE f[1]
        half_cpu == Max(2, Max(2, IF cpu_count = 0 THEN 4 ELSE cpu_count) \div 2)
    IN  IF duration >= 10 * 60
          THEN [mode |-> "segmented", jobs |-> Min(4, Max(2, half_cpu)),
                segment_time |-> 180, reason |-> <<"balanced">>]
          ELSE [mode |-> "single-pass", jobs |-> 1, segment_time |-> 240,
                reason |-> <<"under15min">>]

\* recommend_auto_mode(duration_sec, preset, priority, cpu_count).
\* cpu_count 0 stands for a missing count (`cpu_count or 4`).
recommend_auto_mode(duration_sec, preset, priority, cpu_count) ==
    LET f == to_float(duration_sec)
        duration == IF f = None THEN 0 ELSE f[1]
        cpu == Max(2, IF cpu_count = 0 THEN 4 ELSE cpu_count)
        half_cpu == Max(2, cpu \div 2)
        prio == IF priority \in PRIORITIES THEN priority ELSE "balanced"
        model_preset == IF preset \in PRESETS THEN preset ELSE "x4"
        base == IF duration >= 120 * 60 THEN [jobs |-> Min(8, Max(4, half_cpu)), seg_t |-> 90]
                ELSE IF duration >= 60 * 60 THEN [jobs |-> Min(6, Max(4, half_cpu)), seg_t |-> 120]
                ELSE IF duration >= 30 * 60 THEN [jobs |-> Min(5, Max(3, half_cpu)), seg_t |-> 150]
                ELSE [jobs |-> Min(4, Max(2, half_cpu)), seg_t |-> 180]
        byPrio == IF prio = "accuracy"
                    THEN [jobs |-> Max(2, base.jobs - 1), seg_t |-> Min(300, base.seg_t + 30)]
                  ELSE IF prio = "speed"
                    THEN [jobs |-> Min(8, base.jobs + 1), seg_t |-> Max(60, base.seg_t - 30)]
                  ELSE base
        byPreset == IF model_preset = "x1"
                      THEN [jobs |-> Max(2, byPrio.jobs - 1), seg_t |-> Min(300, byPrio.seg_t + 30)]
                    ELSE IF model_preset = "x16"
                      THEN [jobs |-> Min(8, byPrio.jobs + 1), seg_t |-> Max(60, byPrio.seg_t - 30)]
                    ELSE byPrio
    IN  IF duration >= 15 * 60
          THEN [mode |-> "segmented", jobs |-> byPreset.jobs,
                segment_time |-> byPreset.seg_t, reason |-> <<prio>>]
          ELSE [mode |-> "single-pass", jobs |-> 1, segment_time |-> 240,
                reason |-> <<"under15min">>]

----------------------------------------------------------------------------
(* Output lines of the external process.  A line is classified by the two  *)
(* patterns SEGMENTS_TOTAL_RE and SEGMENT_COMPLETED_RE: "total" carries    *)
(* the number after `Segments:`, "done" the digit string after `segment_`, *)
(* "other" matches neither pattern and "blank" is empty after strip().     *)

TotalLine(n) == [kind |-> "total", n |-> n, id |-> ""]
DoneLine(id) == [kind |-> "done", n |-> 0, id |-> id]
OtherLine == [kind |-> "other", n |-> 0, id |-> ""]
BlankLine == [kind |-> "blank", n |-> 0, id |-> ""]

Lines == {TotalLine(1), DoneLine("001"), DoneLine("002"), OtherLine, BlankLine}

\* A tracker that remembers the last completed segment only.
update_progress_last_only(s, line) ==
    IF line.kind = "total" THEN
        [s EXCEPT !.progress_total_segments = parse_int_clamped(Some(line.n), 0, 0, 999999)]
    ELSE IF line.kind = "done" THEN
        [s EXCEPT !.progress_completed_ids = {line.id},
                  !.progress_completed_segments = 1]
    ELSE s

\* A tracker that counts completion lines instead of segments.
update_progress_counts_lines(s, line) ==
    IF line.kind = "total" THEN
        [s EXCEPT !.progress_total_segments = parse_int_clamped(Some(line.n), 0, 0, 999999)]
    ELSE IF line.kind = "done" THEN
        [s EXCEPT !.progress_completed_ids = @ \cup {line.id},
                  !.progress_completed_segments = @ + 1]
    ELSE s

\* AppState._update_progress_from_log_line, as a function of the store.
update_progress_from_log_line(s, line) ==
    IF line.kind = "blank" THEN s
    ELSE IF line.kind = "total" THEN
        [s EXCEPT !.progress_total_segments = parse_int_clamped(Some(line.n), 0, 0, 999999)]
    ELSE IF line.kind = "done" THEN
        IF line.id \notin s.progress_completed_ids
          THEN LET ids == s.progress_completed_ids \cup {line.id}
               IN  [s EXCEPT !.progress_completed_ids = ids,
                             !.progress_completed_segments = Cardinality(ids)]
          ELSE s
    ELSE s

----------------------------------------------------------------------------
(* The store *)

\* ui_message: the text and, for a segment heartbeat, the numbers in it
Msg(text) == [text |-> text, done |-> 0, total |-> 0]

\* The text of a numeric form field: empty, not an integer, or an integer.
NoText == [kind |-> "empty", v |-> 0]
BadText == [kind |-> "bad", v |-> 0]
IntText(v) == [kind |-> "int", v |-> v]

NoFile == [kind |-> "none", id |-> 0]
LogFile(kind, id) == [kind |-> kind, id |-> id]

\* AppState.__init__
InitState ==
    [ process |-> 0,                \* 0 is None, otherwise the process id
      status |-> "idle",
      running |-> FALSE,
      started_at |-> "",
      finished_at |-> "",
      last_error |-> "",
      ui_message |-> Msg(""),
      input_file |-> "",
      input_name |-> "",
      preset |-> "x4",
      priority |-> "balanced",
      mode_strategy |-> "auto",
      custom_mode |-> "segmented",
      custom_jobs |-> Max(2, Min(8, HostCpuCount \div 2)),
      custom_segment_time |-> 60,
      resolved_mode |-> "",
      resolved_jobs |-> 0,
      resolved_segment_time |-> 0,
      resolved_mode_reason |-> <<>>,
      use_vad |-> FALSE,
      use_vad_effective |-> FALSE,
      vad_model_path |-> "",
      force_cpu_mode |-> FALSE,
      auto_correction |-> TRUE,
      output_name |-> "transcription_result",       \* names without ".txt"
      output_file |-> "transcription_result",       \* below OUTPUTS_DIR
      log_file |-> NoFile,
      preflight_result |-> None,
      preflight_error |-> "",
      preflight_skipped |-> FALSE,
      failure_reason |-> "",
      failure_action |-> "",
      applied_corrections |-> {},
      progress_total_segments |-> 0,
      progress_completed_segments |-> 0,
      progress_completed_ids |-> {},
      recovery_mode |-> "failed",
      recovery_ranges |-> <<>>,
      recovery_segment_time |-> NoText,
      recovery_retry_count |-> 1,
      recovery_preset |-> "keep",
      recovery_partial_output |-> "",
      recovery_output_name |-> "" ]

\* A process that has not been launched yet.
NoProc ==
    [ st |-> "none",        \* none | alive | exited
      kind |-> "",          \* transcribe | retry
      rc |-> 0,             \* exit code once exited
      env |-> <<>>,         \* the WHISPER_* variables it was started with
      input |-> "",         \* the input file on its command line
      out |-> <<>>,         \* the pipe: lines written and not read yet
      wr |-> 0,             \* lines written to the pipe so far
      repeated |-> FALSE,   \* the pump applied a completion line whose
                            \* segment was in the completed set already
      sigs |-> {},          \* signals sent to its process group
      grace |-> FALSE,      \* the 5 s after SIGTERM have elapsed
      cancel_ok |-> FALSE ] \* a cancel() for this process returned ok before
                            \* its exit was handled (recorded with the responses)

\* The per-process tasks: not started before the store records the process.
\* skip is what cleanup_stale_files keeps: the input file and the log it read
\* from the store.
NoSkip == [input |-> "", log |-> 0]
NoTasks == [started |-> FALSE, wait |-> "none", hb |-> "none", skip |-> NoSkip]

Idle == [pc |-> "idle", op |-> "", form |-> <<>>, loc |-> <<>>]
NoResp == [t |-> 0, op |-> "", ok |-> TRUE, msg |-> "", detail |-> <<>>]
Unobserved == [NoResp EXCEPT !.op = "unobserved"]
Resp(t, op, ok, msg) == [t |-> t, op |-> op, ok |-> ok, msg |-> msg, detail |-> <<>>]

\* The disk as far as the exit waiter touches it: the output file of the
\* run (absent, empty or with data), the run logs in LOGS_DIR that were not
\* modified for LOG_RETENTION_SEC (by the number of their process), and the
\* run logs removed.
\* log is the last append to a run log: the log (by the number of its
\* process) and what appended (start, retry, line, heartbeat, finish); a
\* behaviour that starts with Unlogged does not record the appends.
\* up is UPLOADS_DIR: the uploads (by name) saved less than
\* UPLOAD_RETENTION_SEC ago, those saved earlier, and those removed.  A
\* behaviour that starts with Unswept does not record them, and in it the
\* exit waiter sweeps in the step of its lock section.
Unlogged == [file |-> 0, by |-> "unlogged"]
EmptyLog == [file |-> 0, by |-> ""]
Unswept == [fresh |-> {}, old |-> {}, gone |-> {}, seen |-> FALSE]
NoUploads == [fresh |-> {}, old |-> {}, gone |-> {}, seen |-> TRUE]
CleanDisk == [output |-> "absent", stale |-> {}, removed |-> {}, log |-> Unlogged,
              up |-> Unswept]

\* _save_upload, lines 557-578: a new file in UPLOADS_DIR
save_upload(disk, name) ==
    IF ~disk.up.seen THEN disk
    ELSE [disk EXCEPT !.up.fresh = @ \cup {name},
                      !.up.old = @ \ {name},
                      !.up.gone = @ \ {name}]

\* AppState._write_log, lines 533-537, called with the store as s
write_log(disk, s, by) ==
    IF disk.log = Unlogged \/ s.log_file = NoFile THEN disk
    ELSE [disk EXCEPT !.log = [file |-> s.log_file.id, by |-> by]]

Init ==
    /\ state = InitState
    /\ procs = [p \in ProcIds |-> NoProc]
    /\ tasks = [p \in ProcIds |-> NoTasks]
    /\ thr = [t \in Threads |-> Idle]
    /\ resp = NoResp
    /\ snap = None
    /\ files = {}
    /\ fs = CleanDisk
    /\ fn = None

----------------------------------------------------------------------------
(* The environment of the handlers: installed tools, preflight.sh, forms   *)

DepOrder == <<"transcribe_workflow.sh", "preflight.sh", "ffmpeg", "ffprobe", "whisper-cli">>
AllDeps == {DepOrder[i] : i \in DOMAIN DepOrder}
AvailChoices == {AllDeps, AllDeps \ {"ffmpeg", "whisper-cli"}}

\* A test that stops at the first missing dependency.
dependencies_first_only(avail) ==
    LET missing == SelectSeq(DepOrder, LAMBDA d : d \notin avail)
    IN  IF missing = <<>> THEN <<>> ELSE <<Head(missing)>>

\* AppState.dependencies: the missing ones, in the order they are tested.
dependencies(avail) == SelectSeq(DepOrder, LAMBDA d : d \notin avail)

NoDuration == [kind |-> "none", v |-> 0]
Seconds(v) == [kind |-> "num", v |-> v]

\* What preflight.sh can print: the JSON object, reduced to the keys the
\* store reads (verdict, input.duration_sec, recommended_preset, corrections).
PreflightResults ==
    { [verdict |-> "OK", duration_sec |-> Seconds(3600),
       recommended_preset |-> "x8", corrections |-> {"volume_normalize"}],
      [verdict |-> "NEEDS_CORRECTION", duration_sec |-> Seconds(600),
       recommended_preset |-> "", corrections |-> {}],
      [verdict |-> "NOT_RECOMMENDED", duration_sec |-> NoDuration,
       recommended_preset |-> "", corrections |-> {}] }

\* What preflight.sh did: it ran out of its 120 s, or it ended with a return
\* code and a standard output that is empty, not JSON, JSON but no object,
\* or a JSON object.
NoOutput == [kind |-> "empty", v |-> <<>>]
NotJson == [kind |-> "text", v |-> <<>>]
JsonList == [kind |-> "json", v |-> <<>>]
JsonObject(r) == [kind |-> "object", v |-> r]

Ended(returncode, stdout) ==
    [timed_out |-> FALSE, returncode |-> returncode, stdout |-> stdout]

TimedOut == [timed_out |-> TRUE, returncode |-> 0, stdout |-> NoOutput]

\* A runner that does not look at the return code.
run_preflight_ignores_exit(run) ==
    IF run.timed_out THEN None
    ELSE IF run.stdout.kind = "empty" THEN None
    ELSE IF run.stdout.kind = "text" THEN None
    ELSE IF run.stdout.kind # "object" THEN None
    ELSE Some(run.stdout.v)

\* AppState._run_preflight, lines 581-609, as preflight_with_form calls it
\* (lines 682-687): the object, or None when the call raised.
run_preflight(run) ==
    IF run.timed_out THEN None
    ELSE IF run.returncode # 0 THEN None
    ELSE IF run.stdout.kind = "empty" THEN None
    ELSE IF run.stdout.kind = "text" THEN None
    ELSE IF run.stdout.kind # "object" THEN None
    ELSE Some(run.stdout.v)

FailedRuns ==
    {TimedOut, Ended(0, NoOutput), Ended(0, NotJson), Ended(0, JsonList)}
        \cup {Ended(1, JsonObject(r)) : r \in PreflightResults}

PreflightRuns == {Ended(0, JsonObject(r)) : r \in PreflightResults} \cup FailedRuns

PreflightOutcomes == {TimedOut} \cup {Ended(0, JsonObject(r)) : r \in PreflightResults}

PreflightForms ==
    { [priority |-> "balanced", selected_preset |-> "", upload |-> "a.wav"],
      [priority |-> "fastest", selected_preset |-> "x1", upload |-> ""] }

StartForms ==
    { [preset |-> "x4", auto_correction |-> TRUE, use_vad |-> TRUE,
       mode_strategy |-> "auto", custom_mode |-> "",
       custom_jobs |-> None, custom_segment_time |-> None, output_name |-> ""],
      [preset |-> "x16", auto_correction |-> FALSE, use_vad |-> TRUE,
       mode_strategy |-> "custom", custom_mode |-> "segmented",
       custom_jobs |-> Some(9), custom_segment_time |-> Some(20), output_name |-> "out"] }

VadModelPaths == {"", "ggml-silero-v6.2.0.bin"}

\* resp and snap hold what the step just taken returned to its caller; a
\* step that returns nothing leaves them empty.  A behaviour that starts
\* with resp = Unobserved does not record the responses at all.
Quiet == resp' = (IF resp = Unobserved THEN Unobserved ELSE NoResp) /\ snap' = None

ReturnWith(t, r) ==
    /\ resp' = IF resp = Unobserved THEN Unobserved ELSE r
    /\ snap' = None
    /\ thr' = [thr EXCEPT ![t] = Idle]

Return(t, op, ok, msg) == ReturnWith(t, Resp(t, op, ok, msg))

Goto(t, op, pc, form, loc) ==
    /\ thr' = [thr EXCEPT ![t] = [pc |-> pc, op |-> op, form |-> form, loc |-> loc]]
    /\ Quiet

----------------------------------------------------------------------------
(* preflight_with_form *)

\* lines 641-672: the running check, the form and the upload
PreflightCheck(t, forms) ==
    /\ thr[t].pc = "idle"
    /\ IF state.running
         THEN Return(t, "preflight", FALSE, "running") /\ UNCHANGED fs
         ELSE \E form \in forms, saved \in BOOLEAN :
                LET priority == IF form.priority \in PRIORITIES THEN form.priority ELSE "balanced"
                    selected_preset == IF form.selected_preset \in PRESETS
                                         THEN form.selected_preset ELSE ""
                    uploaded_new == form.upload # ""
                IN  IF uploaded_new /\ ~saved
                      THEN Return(t, "preflight", FALSE, "upload_failed") /\ UNCHANGED fs
                      ELSE /\ fs' = IF uploaded_new THEN save_upload(fs, form.upload) ELSE fs
                           /\ Goto(t, "preflight", "pf_input", form,
                                   [priority |-> priority, selected_preset |-> selected_preset,
                                    uploaded_new |-> uploaded_new,
                                    input_path |-> form.upload, input_name |-> form.upload,
                                    run |-> None, preflight_result |-> None])
    /\ UNCHANGED <<state, procs, tasks, fn, files>>

\* lines 674-687: the stored input when nothing was uploaded, then preflight.sh
PreflightInput(t, runs) ==
    /\ thr[t].pc = "pf_input"
    /\ LET l == thr[t].loc
       IN  \E isfile \in BOOLEAN, run \in runs :
             IF l.input_path = ""
               THEN IF state.input_file # "" /\ isfile
                      THEN Goto(t, "preflight", "pf_store", thr[t].form,
                                [l EXCEPT !.input_path = state.input_file,
                                          !.input_name = IF state.input_name # ""
                                                           THEN state.input_name
                                                           ELSE state.input_file,
                                          !.run = run,
                                          !.preflight_result = run_preflight(run)])
                      ELSE Return(t, "preflight", FALSE, "no_input")
               ELSE Goto(t, "preflight", "pf_store", thr[t].form,
                         [l EXCEPT !.run = run, !.preflight_result = run_preflight(run)])
    /\ UNCHANGED <<state, procs, tasks, fn, files, fs>>

\* lines 689-712
PreflightStore(t) ==
    /\ thr[t].pc = "pf_store"
    /\ LET l == thr[t].loc
           s1 == [state EXCEPT !.input_file = l.input_path,
                               !.input_name = l.input_name,
                               !.priority = l.priority,
                               !.preset = IF l.selected_preset # ""
                                            THEN l.selected_preset ELSE @,
                               !.preflight_skipped = FALSE]
       IN  state' =
             IF l.preflight_result # None
               THEN LET r == l.preflight_result[1]
                    IN  [s1 EXCEPT !.preflight_result = l.preflight_result,
                                   !.preflight_error = "",
                                   !.preset = IF /\ l.uploaded_new
                                                 /\ l.selected_preset = ""
                                                 /\ r.recommended_preset \in PRESETS
                                                THEN r.recommended_preset ELSE @,
                                   !.ui_message = Msg("preflight_done")]
               ELSE [s1 EXCEPT !.preflight_result = None,
                               !.preflight_error = "preflight_failed",
                               !.preflight_skipped = TRUE,
                               !.ui_message = Msg("preflight_skipped")]
    /\ Return(t, "preflight", TRUE, "preflight")
    /\ UNCHANGED <<procs, tasks, fn, files, fs>>

----------------------------------------------------------------------------
(* start_with_form *)

\* AppState._resolve_mode_config
resolve_mode_config(mode_strategy, custom_mode, custom_jobs, custom_segment_time, preflight_result, preset, priority) ==
    LET duration_sec == IF preflight_result # None
                          THEN preflight_result[1].duration_sec ELSE NoDuration
        auto == recommend_auto_mode(duration_sec, preset, priority, HostCpuCount)
    IN  IF mode_strategy = "custom"
          THEN IF custom_mode = "segmented"
                 THEN [mode |-> "segmented", jobs |-> custom_jobs,
                       segment_time |-> custom_segment_time,
                       reason |-> <<"custom", "segmented">>]
                 ELSE [mode |-> "single-pass", jobs |-> 1, segment_time |-> 240,
                       reason |-> <<"custom", "single-pass">>]
          ELSE [auto EXCEPT !.reason = <<"auto">> \o @]

\* lines 714-737: the running check, the dependencies and the form
StartCheck(t, forms, installed) ==
    /\ thr[t].pc = "idle"
    /\ IF state.running
         THEN Return(t, "start", FALSE, "already_running")
         ELSE \E avail \in installed, form \in forms :
                LET missing == dependencies(avail)
                IN  IF missing # <<>>
                      THEN ReturnWith(t, [Resp(t, "start", FALSE, "missing_dependencies")
                                            EXCEPT !.detail = missing])
                      ELSE Goto(t, "start", "s_prev", form, <<>>)
    /\ UNCHANGED <<state, procs, tasks, fn, files, fs>>

\* lines 739-752: the previous custom values are the defaults of the form's
StartPrev(t) ==
    /\ thr[t].pc = "s_prev"
    /\ LET form == thr[t].form
           prev_custom_jobs == state.custom_jobs
           prev_custom_segment == state.custom_segment_time
       IN  Goto(t, "start", "s_cfg", form,
                [preset |-> IF form.preset \in PRESETS THEN form.preset ELSE "x4",
                 mode_strategy |-> IF form.mode_strategy \in MODE_STRATEGIES
                                     THEN form.mode_strategy ELSE "auto",
                 custom_mode |-> IF form.custom_mode \in CUSTOM_MODES
                                   THEN form.custom_mode ELSE "segmented",
                 custom_jobs |-> parse_int_clamped(form.custom_jobs, prev_custom_jobs, 1, 8),
                 custom_segment_time |->
                     parse_int_clamped(form.custom_segment_time, prev_custom_segment, 30, 600),
                 output_name |-> IF form.output_name # ""
                                   THEN form.output_name ELSE "transcription_result"])
    /\ UNCHANGED <<state, procs, tasks, fn, files, fs>>

\* lines 754-842: input and diagnosis are read, validated, the mode resolved
StartCfg(t, vad_models) ==
    /\ thr[t].pc = "s_cfg"
    /\ LET form == thr[t].form
           l == thr[t].loc
           input_path == state.input_file
           input_name == state.input_name
           preflight_result == state.preflight_result
           preflight_skipped == state.preflight_skipped
           selected_priority == state.priority
           current_force_cpu_mode == state.force_cpu_mode
           verdict == IF preflight_result # None THEN preflight_result[1].verdict ELSE ""
           corrections == IF preflight_result # None
                            THEN preflight_result[1].corrections ELSE {}
           normalize_enabled == form.auto_correction /\ "volume_normalize" \in corrections
           mode_config == resolve_mode_config(l.mode_strategy, l.custom_mode, l.custom_jobs,
                                              l.custom_segment_time, preflight_result,
                                              l.preset, selected_priority)
           resolved_mode == mode_config.mode
           resolved_jobs == parse_int_clamped(Some(mode_config.jobs), 1, 1, 8)
           resolved_segment_time == parse_int_clamped(Some(mode_config.segment_time), 240, 30, 600)
           wants_vad == form.use_vad /\ resolved_mode = "single-pass"
           reason1 == IF form.use_vad /\ resolved_mode = "segmented"
                        THEN Append(mode_config.reason, "vad_single_pass_only")
                        ELSE mode_config.reason
       IN  \E isfile \in BOOLEAN, found \in vad_models :
             IF input_path = "" \/ ~isfile
               THEN Return(t, "start", FALSE, "no_input")
             ELSE IF preflight_result = None /\ ~preflight_skipped
               THEN Return(t, "start", FALSE, "no_preflight")
             ELSE IF verdict = "NOT_RECOMMENDED"
               THEN Return(t, "start", FALSE, "not_recommended")
             ELSE LET vad_model_path == IF wants_vad THEN found ELSE ""
                      use_vad_effective == wants_vad /\ vad_model_path # ""
                      resolved_reason == IF wants_vad /\ vad_model_path = ""
                                           THEN Append(reason1, "vad_model_missing")
                                           ELSE reason1
                  IN  Goto(t, "start", "s_launch", form,
                           [preset |-> l.preset,
                            mode_strategy |-> l.mode_strategy,
                            custom_mode |-> l.custom_mode,
                            custom_jobs |-> l.custom_jobs,
                            custom_segment_time |-> l.custom_segment_time,
                            output_name |-> l.output_name,
                            input_path |-> input_path,
                            input_name |-> input_name,
                            force_cpu |-> current_force_cpu_mode,
                            normalize_enabled |-> normalize_enabled,
                            resolved_mode |-> resolved_mode,
                            resolved_jobs |-> resolved_jobs,
                            resolved_segment_time |-> resolved_segment_time,
                            resolved_reason |-> resolved_reason,
                            use_vad_effective |-> use_vad_effective,
                            vad_model_path |-> vad_model_path,
                            proc |-> 0])
    /\ UNCHANGED <<state, procs, tasks, fn, files, fs>>

\* lines 820-842: the variables that steer transcribe_workflow.sh; "", 0 and
\* FALSE stand for a variable that is removed from the environment
StartEnv(l) ==
    [ WHISPER_PRESET |-> l.preset,
      WHISPER_MODE |-> l.resolved_mode,
      WHISPER_FORCE_CPU |-> l.force_cpu,
      WHISPER_USE_VAD |-> l.use_vad_effective,
      WHISPER_VAD_MODEL |-> IF l.use_vad_effective THEN l.vad_model_path ELSE "",
      WHISPER_JOBS |-> IF l.resolved_mode = "segmented" THEN l.resolved_jobs ELSE 0,
      WHISPER_SEGMENT_TIME |-> IF l.resolved_mode = "segmented"
                                 THEN l.resolved_segment_time ELSE 0,
      WHISPER_PREFLIGHT_NORMALIZE |-> l.normalize_enabled,
      WHISPER_RETRY_COUNT |-> 0 ]

\* subprocess.Popen: a new process in its own session, or an OSError
Popen(p, kind, input, env) ==
    /\ procs[p].st = "none"
    /\ \A q \in ProcIds : q < p => procs[q].st # "none"
    /\ procs' = [procs EXCEPT ![p] = [NoProc EXCEPT !.st = "alive", !.kind = kind,
                                                    !.input = input, !.env = env]]

\* A start that marks the store as running as soon as the process exists,
\* before it takes the lock at line 859.
StartLaunchMarksRunning(t) ==
    /\ thr[t].pc = "s_launch"
    /\ \/ \E p \in ProcIds :
            /\ Popen(p, "transcribe", thr[t].loc.input_path, StartEnv(thr[t].loc))
            /\ Goto(t, "start", "s_record", thr[t].form, [thr[t].loc EXCEPT !.proc = p])
            /\ state' = [state EXCEPT !.running = TRUE, !.status = "running"]
       \/ /\ Return(t, "start", FALSE, "launch_failed")
          /\ UNCHANGED <<procs, state>>
    /\ UNCHANGED <<tasks, fn, files, fs>>

\* lines 844-857
StartLaunch(t) ==
    /\ thr[t].pc = "s_launch"
    /\ \/ \E p \in ProcIds :
            /\ Popen(p, "transcribe", thr[t].loc.input_path, StartEnv(thr[t].loc))
            /\ Goto(t, "start", "s_record", thr[t].form, [thr[t].loc EXCEPT !.proc = p])
       \/ /\ Return(t, "start", FALSE, "launch_failed")
          /\ UNCHANGED procs
    /\ UNCHANGED <<state, tasks, fn, files, fs>>

\* threading.Thread(...).start() for the pump, the exit waiter and the heartbeat
StartTasks(p) ==
    tasks' = [tasks EXCEPT ![p] = [started |-> TRUE, wait |-> "wait", hb |-> "sleep",
                                   skip |-> NoSkip]]

\* A record section that takes the request for VAD as its effect.
StartRecordVadAsRequested(t) ==
    /\ thr[t].pc = "s_record"
    /\ LET l == thr[t].loc
           segmented == l.resolved_mode = "segmented"
       IN  /\ state' = [state EXCEPT
                  !.process = l.proc,
                  !.running = TRUE,
                  !.status = "running",
                  !.started_at = "t",
                  !.progress_total_segments = 0,
                  !.progress_completed_segments = 0,
                  !.progress_completed_ids = {},
                  !.finished_at = "",
                  !.last_error = "",
                  !.failure_reason = "",
                  !.failure_action = "",
                  !.ui_message = Msg("started"),
                  !.input_file = l.input_path,
                  !.input_name = l.input_name,
                  !.preset = l.preset,
                  !.mode_strategy = l.mode_strategy,
                  !.custom_mode = l.custom_mode,
                  !.custom_jobs = l.custom_jobs,
                  !.custom_segment_time = l.custom_segment_time,
                  !.resolved_mode = l.resolved_mode,
                  !.resolved_jobs = IF segmented THEN l.resolved_jobs ELSE 1,
                  !.resolved_segment_time = IF segmented THEN l.resolved_segment_time ELSE 240,
                  !.resolved_mode_reason = l.resolved_reason,
                  !.use_vad = thr[t].form.use_vad,
                  !.use_vad_effective = thr[t].form.use_vad,
                  !.vad_model_path = l.vad_model_path,
                  !.auto_correction = thr[t].form.auto_correction,
                  !.applied_corrections = IF l.normalize_enabled
                                            THEN {"volume_normalize"} ELSE {},
                  !.output_name = l.output_name,
                  !.output_file = l.output_name,
                  !.log_file = LogFile("run", l.proc)]
           /\ StartTasks(l.proc)
    /\ fs' = write_log(fs, state', "start")
    /\ Return(t, "start", TRUE, "started")
    /\ UNCHANGED <<procs, fn, files>>

\* lines 859-925
StartRecord(t) ==
    /\ thr[t].pc = "s_record"
    /\ LET l == thr[t].loc
           segmented == l.resolved_mode = "segmented"
       IN  /\ state' = [state EXCEPT
                  !.process = l.proc,
                  !.running = TRUE,
                  !.status = "running",
                  !.started_at = "t",
                  !.progress_total_segments = 0,
                  !.progress_completed_segments = 0,
                  !.progress_completed_ids = {},
                  !.finished_at = "",
                  !.last_error = "",
                  !.failure_reason = "",
                  !.failure_action = "",
                  !.ui_message = Msg("started"),
                  !.input_file = l.input_path,
                  !.input_name = l.input_name,
                  !.preset = l.preset,
                  !.mode_strategy = l.mode_strategy,
                  !.custom_mode = l.custom_mode,
                  !.custom_jobs = l.custom_jobs,
                  !.custom_segment_time = l.custom_segment_time,
                  !.resolved_mode = l.resolved_mode,
                  !.resolved_jobs = IF segmented THEN l.resolved_jobs ELSE 1,
                  !.resolved_segment_time = IF segmented THEN l.resolved_segment_time ELSE 240,
                  !.resolved_mode_reason = l.resolved_reason,
                  !.use_vad = thr[t].form.use_vad,
                  !.use_vad_effective = l.use_vad_effective,
                  !.vad_model_path = l.vad_model_path,
                  !.auto_correction = thr[t].form.auto_correction,
                  !.applied_corrections = IF l.normalize_enabled
                                            THEN {"volume_normalize"} ELSE {},
                  !.output_name = l.output_name,
                  !.output_file = l.output_name,
                  !.log_file = LogFile("run", l.proc)]
           /\ StartTasks(l.proc)
    /\ fs' = write_log(fs, state', "start")
    /\ Return(t, "start", TRUE, "started")
    /\ UNCHANGED <<procs, fn, files>>

----------------------------------------------------------------------------
(* retry_failed_with_form *)

\* A time text is the sequence of its colon-separated parts; the empty text
\* is <<>>.  A part is a plain decimal number ("90", "12.5" with its integer
\* part as v), another float literal ("1e3"), "nan", "inf" or something
\* float() rejects.  A negative number can only stand right of the first
\* "-" of a token.
Num(v) == [kind |-> "num", v |-> v]
ExpPart(v) == [kind |-> "exp", v |-> v]
NanPart == [kind |-> "nan", v |-> 0]
InfPart == [kind |-> "inf", v |-> 0]
BadPart == [kind |-> "bad", v |-> 0]

\* What a call returns: a value, None, or an exception that leaves the call.
Returned(v) == [tag |-> "ok", v |-> v]
ReturnedNone == [tag |-> "none", v |-> 0]
Raised == [tag |-> "raise", v |-> 0]

\* parse_time_to_seconds, lines 245-274
parse_time_to_seconds(text) ==
    LET n == Len(text)
        isfloat(part) == part.kind # "bad"
        finite(part) == part.kind \in {"num", "exp"}
        \* `x < 0` is False for nan and for inf
        negative(part) == finite(part) /\ part.v < 0
    IN  IF n = 0 THEN ReturnedNone
        ELSE IF n = 1 /\ text[1].kind = "num" /\ text[1].v >= 0
          THEN Returned(Max(0, text[1].v))
        ELSE IF n \notin {2, 3} THEN ReturnedNone
        ELSE IF \E i \in 1..n : ~isfloat(text[i]) THEN ReturnedNone
        ELSE IF \E i \in 1..n : negative(text[i]) THEN ReturnedNone
        ELSE IF \E i \in 1..n : ~finite(text[i]) THEN Raised   \* int(nan), int(inf)
        ELSE IF n = 2 THEN Returned(text[1].v * 60 + text[2].v)
        ELSE Returned(text[1].v * 3600 + text[2].v * 60 + text[3].v)

\* A token of the range text, after the split at commas and newlines: a
\* bare time, or the texts left and right of its first "-".
Bare(text) == [dash |-> FALSE, left |-> text, right |-> <<>>]
Range(left, right) == [dash |-> TRUE, left |-> left, right |-> right]

\* sorted(ids) for the integers of S in lo..hi
RECURSIVE SortedIn(_, _, _)
SortedIn(S, lo, hi) ==
    IF lo > hi THEN <<>>
    ELSE IF lo = hi THEN (IF lo \in S THEN <<lo>> ELSE <<>>)
    ELSE LET mid == (lo + hi) \div 2
         IN  SortedIn(S, lo, mid) \o SortedIn(S, mid + 1, hi)

\* The seconds [start, end) of a token both of whose times parse.
TokenSeconds(token) ==
    LET start_sec == parse_time_to_seconds(token.left).v
        end_sec == parse_time_to_seconds(token.right).v
    IN  IF token.dash
          THEN LET lo == Min(start_sec, end_sec)
                   hi == Max(start_sec, end_sec)
               IN  <<lo, IF hi = lo THEN lo + 1 ELSE hi>>
          ELSE <<start_sec, start_sec + 1>>

\* The outcome of parsing a token: "ok", "none" (malformed) or "raise".
TokenParse(token) ==
    LET l == parse_time_to_seconds(token.left).tag
        r == parse_time_to_seconds(token.right).tag
    IN  IF ~token.dash THEN l
        ELSE IF l = "raise" THEN "raise"
        ELSE IF r = "raise" THEN "raise"
        ELSE IF l = "none" \/ r = "none" THEN "none"
        ELSE "ok"

\* build_segment_ids_from_ranges, lines 277-313: the list of segment
\* indices (segment_%03d of each) and the error, or the exception of
\* parse_time_to_seconds at the first token that is not well formed.
build_segment_ids_from_ranges(tokens, segment_time) ==
    LET notok == {i \in DOMAIN tokens : TokenParse(tokens[i]) # "ok"}
        first == CHOOSE i \in notok : \A j \in notok : i <= j
        idxs(token) ==
            LET se == TokenSeconds(token)
                start_idx == Max(0, se[1] \div segment_time)
                end_idx == Max(start_idx, Max(0, (se[2] - 1) \div segment_time))
            IN  start_idx .. end_idx
        ids == UNION {idxs(tokens[i]) : i \in DOMAIN tokens}
        bottom == CHOOSE x \in ids : \A y \in ids : x <= y
        top == CHOOSE x \in ids : \A y \in ids : y <= x
    IN  IF segment_time <= 0 THEN [ids |-> <<>>, err |-> "bad_segment_time"]
        ELSE IF tokens = <<>> THEN [ids |-> <<>>, err |-> "no_ranges"]
        ELSE IF notok # {}
          THEN IF TokenParse(tokens[first]) = "raise"
                 THEN [ids |-> <<>>, err |-> "raised"]
                 ELSE [ids |-> <<>>, err |-> "bad_range"]
        ELSE IF ids = {} THEN [ids |-> <<>>, err |-> "no_segments"]
        ELSE IF Cardinality(ids) > 5000 THEN [ids |-> <<>>, err |-> "too_many_segments"]
        ELSE [ids |-> SortedIn(ids, bottom, top), err |-> ""]

\* default_recovered_output_name; file names are written without ".txt"
default_recovered_output_name(partial_output) == partial_output \o ".recovered"

\* What retry finds on disk next to the partial output.
\*   input, script, partial: os.path.isfile of the three files
\*   meta_segment_time: SEGMENT_TIME of the recovery_meta sidecar, if any
\*   failed: the failed_segments file is there; failed_count: its valid lines
DiskOk == [input |-> TRUE, script |-> TRUE, partial |-> TRUE,
           meta_segment_time |-> None, failed |-> TRUE, failed_count |-> 2]

\* lines 927-977: the running check, the files and the form
RetryCheck(t, forms, disks) ==
    /\ thr[t].pc = "idle"
    /\ IF state.running
         THEN Return(t, "retry", FALSE, "already_running")
         ELSE \E form \in forms, disk \in disks :
           LET input_path == state.input_file
               current_output == state.output_file
               mode0 == IF form.recovery_mode # "" THEN form.recovery_mode
                        ELSE state.recovery_mode
               mode == IF mode0 \in RECOVERY_MODES THEN mode0 ELSE "failed"
               ranges_text == IF form.recovery_ranges # <<>> THEN form.recovery_ranges
                              ELSE state.recovery_ranges
               retry_count == parse_int_clamped(form.recovery_retry_count,
                                                state.recovery_retry_count, 1, 5)
               preset0 == IF form.recovery_preset # "" THEN form.recovery_preset
                          ELSE state.recovery_preset
               preset_opt == IF preset0 \in PRESETS THEN preset0 ELSE "keep"
               partial_output == IF form.recovery_partial_output # ""
                                   THEN form.recovery_partial_output
                                 ELSE IF state.recovery_partial_output # ""
                                   THEN state.recovery_partial_output
                                 ELSE current_output
               recovered_output == IF form.recovery_output_name # ""
                                     THEN form.recovery_output_name
                                   ELSE IF state.recovery_output_name # ""
                                     THEN state.recovery_output_name
                                   ELSE default_recovered_output_name(partial_output)
               text == form.recovery_segment_time
               segment_time_override == IF text.kind = "int" THEN text.v ELSE 0
           IN  IF input_path = "" \/ ~disk.input
                 THEN Return(t, "retry", FALSE, "no_input")
               ELSE IF ~disk.script
                 THEN Return(t, "retry", FALSE, "no_retry_script")
               ELSE IF ~disk.partial
                 THEN Return(t, "retry", FALSE, "no_partial_output")
               ELSE IF text.kind = "bad"
                 THEN Return(t, "retry", FALSE, "segment_time_not_integer")
               ELSE IF text.kind = "int"
                       /\ (segment_time_override < 30 \/ segment_time_override > 3600)
                 THEN Return(t, "retry", FALSE, "segment_time_out_of_range")
               ELSE Goto(t, "retry", "r_seg", form,
                         [input_path |-> input_path,
                          mode |-> mode,
                          ranges_text |-> ranges_text,
                          retry_count |-> retry_count,
                          preset_opt |-> preset_opt,
                          partial_output |-> partial_output,
                          recovered_output |-> recovered_output,
                          segment_time_override_text |-> text,
                          segment_time_override |-> segment_time_override,
                          seg_from_meta |-> parse_int_clamped(disk.meta_segment_time, 0, 0, 3600),
                          disk |-> disk,
                          segment_time_effective |-> 0,
                          target_count |-> 0,
                          proc |-> 0])
    /\ UNCHANGED <<state, procs, tasks, fn, files, fs>>

\* A retry that falls back to the default segment time of 240 s.
RetrySegDefault240(t) ==
    /\ thr[t].pc = "r_seg"
    /\ LET l == thr[t].loc
           seg_from_state == IF state.resolved_mode = "segmented"
                               THEN parse_int_clamped(Some(state.resolved_segment_time), 0, 0, 3600)
                               ELSE 0
           segment_time_effective ==
               IF l.segment_time_override # 0 THEN l.segment_time_override
               ELSE IF l.seg_from_meta # 0 THEN l.seg_from_meta
               ELSE IF seg_from_state # 0 THEN seg_from_state
               ELSE 240
           built == build_segment_ids_from_ranges(l.ranges_text, segment_time_effective)
           go(count) == Goto(t, "retry", "r_launch", thr[t].form,
                             [l EXCEPT !.segment_time_effective = segment_time_effective,
                                       !.target_count = count])
           fail(msg) == Return(t, "retry", FALSE, msg) /\ UNCHANGED files
       IN  IF l.mode = "failed"
             THEN IF ~l.disk.failed
                    THEN fail("no_failed_list")
                  ELSE IF l.disk.failed_count <= 0
                    THEN fail("empty_failed_list")
                  ELSE go(l.disk.failed_count) /\ UNCHANGED files
             ELSE IF l.ranges_text = <<>>
                    THEN fail("no_ranges")
                  ELSE IF segment_time_effective <= 0
                    THEN fail("no_segment_time")
                  ELSE IF built.err # ""
                    THEN fail(built.err)
                  ELSE \/ go(Len(built.ids)) /\ files' = files \cup {built.ids}
                       \/ fail("targets_not_saved")
    /\ UNCHANGED <<state, procs, tasks, fn, fs>>

\* lines 978-1017: the recalled segment time and the targets
RetrySeg(t) ==
    /\ thr[t].pc = "r_seg"
    /\ LET l == thr[t].loc
           seg_from_state == IF state.resolved_mode = "segmented"
                               THEN parse_int_clamped(Some(state.resolved_segment_time), 0, 0, 3600)
                               ELSE 0
           segment_time_effective ==
               IF l.segment_time_override # 0 THEN l.segment_time_override
               ELSE IF l.seg_from_meta # 0 THEN l.seg_from_meta
               ELSE seg_from_state
           built == build_segment_ids_from_ranges(l.ranges_text, segment_time_effective)
           go(count) == Goto(t, "retry", "r_launch", thr[t].form,
                             [l EXCEPT !.segment_time_effective = segment_time_effective,
                                       !.target_count = count])
           fail(msg) == Return(t, "retry", FALSE, msg) /\ UNCHANGED files
       IN  IF l.mode = "failed"
             THEN IF ~l.disk.failed
                    THEN fail("no_failed_list")
                  ELSE IF l.disk.failed_count <= 0
                    THEN fail("empty_failed_list")
                  ELSE go(l.disk.failed_count) /\ UNCHANGED files
             ELSE IF l.ranges_text = <<>>
                    THEN fail("no_ranges")
                  ELSE IF segment_time_effective <= 0
                    THEN fail("no_segment_time")
                  ELSE IF built.err # ""
                    THEN fail(built.err)
                  ELSE \/ go(Len(built.ids)) /\ files' = files \cup {built.ids}
                       \/ fail("targets_not_saved")
    /\ UNCHANGED <<state, procs, tasks, fn, fs>>

\* lines 1019-1028: the variables that steer retry_failed_segments.sh
RetryEnv(l) ==
    [ WHISPER_PRESET |-> IF l.preset_opt \in PRESETS THEN l.preset_opt ELSE "",
      WHISPER_MODE |-> "",
      WHISPER_FORCE_CPU |-> FALSE,
      WHISPER_USE_VAD |-> FALSE,
      WHISPER_VAD_MODEL |-> "",
      WHISPER_JOBS |-> 0,
      WHISPER_SEGMENT_TIME |-> IF l.segment_time_effective > 0
                                 THEN l.segment_time_effective ELSE 0,
      WHISPER_PREFLIGHT_NORMALIZE |-> FALSE,
      WHISPER_RETRY_COUNT |-> l.retry_count ]

\* lines 1030-1045
RetryLaunch(t) ==
    /\ thr[t].pc = "r_launch"
    /\ \/ \E p \in ProcIds :
            /\ Popen(p, "retry", thr[t].loc.input_path, RetryEnv(thr[t].loc))
            /\ Goto(t, "retry", "r_record", thr[t].form, [thr[t].loc EXCEPT !.proc = p])
       \/ /\ Return(t, "retry", FALSE, "launch_failed")
          /\ UNCHANGED procs
    /\ UNCHANGED <<state, tasks, fn, files, fs>>

\* lines 1057-1110
RetryRecord(t) ==
    /\ thr[t].pc = "r_record"
    /\ LET l == thr[t].loc
       IN  /\ state' = [state EXCEPT
                  !.process = l.proc,
                  !.running = TRUE,
                  !.status = "running",
                  !.started_at = "t",
                  !.progress_total_segments = 0,
                  !.progress_completed_segments = 0,
                  !.progress_completed_ids = {},
                  !.finished_at = "",
                  !.last_error = "",
                  !.failure_reason = "",
                  !.failure_action = "",
                  !.ui_message = Msg("retry_started"),
                  !.recovery_mode = l.mode,
                  !.recovery_ranges = l.ranges_text,
                  !.recovery_segment_time = l.segment_time_override_text,
                  !.recovery_retry_count = l.retry_count,
                  !.recovery_preset = l.preset_opt,
                  !.recovery_partial_output = l.partial_output,
                  !.recovery_output_name = l.recovered_output,
                  !.resolved_mode = "recovery",
                  !.resolved_mode_reason = <<"recovery">>,
                  !.use_vad_effective = FALSE,
                  !.vad_model_path = "",
                  !.output_name = l.recovered_output,
                  !.output_file = l.recovered_output,
                  !.log_file = LogFile("retry", l.proc)]
           /\ StartTasks(l.proc)
    /\ fs' = write_log(fs, state', "retry")
    /\ Return(t, "retry", TRUE, "retry-started")
    /\ UNCHANGED <<procs, fn, files>>

----------------------------------------------------------------------------
(* The external process *)

\* The number of lines the processes 1..n have written.
RECURSIVE Written(_)
Written(n) == IF n = 0 THEN 0 ELSE procs[n].wr + Written(n - 1)

\* The process writes one more line to the pipe.
ProcWrite(p, lines) ==
    /\ procs[p].st = "alive"
    /\ Written(MaxProcs) < MaxLines
    /\ \E line \in lines :
         procs' = [procs EXCEPT ![p].out = Append(@, line), ![p].wr = @ + 1]
    /\ Quiet
    /\ UNCHANGED <<state, tasks, thr, fn, files, fs>>

\* Exit codes: the store only tells 0 from the others.
ExitCodes == {0, 1}

\* The process exits (on its own or because of a signal; a process may also
\* ignore SIGTERM, in which case this step simply does not happen).
ProcExit(p) ==
    /\ procs[p].st = "alive"
    /\ \E rc \in ExitCodes :
         procs' = [procs EXCEPT ![p].st = "exited", ![p].rc = rc]
    /\ Quiet
    /\ UNCHANGED <<state, tasks, thr, fn, files, fs>>

\* Five seconds pass after SIGTERM while the process is still alive.
GraceElapse(p) ==
    /\ procs[p].st = "alive"
    /\ "SIGTERM" \in procs[p].sigs
    /\ ~procs[p].grace
    /\ procs' = [procs EXCEPT ![p].grace = TRUE]
    /\ Quiet
    /\ UNCHANGED <<state, tasks, thr, fn, files, fs>>

----------------------------------------------------------------------------
(* The three tasks of a run *)

\* A pump that applies every line it reads, whatever process printed it.
PumpOutputAnyProcess(p) ==
    /\ tasks[p].started
    /\ procs[p].out # <<>>
    /\ LET line == Head(procs[p].out)
       IN  /\ procs' = [procs EXCEPT
                  ![p].out = Tail(@),
                  ![p].repeated = \/ @
                                  \/ /\ p = state.process
                                     /\ line.kind = "done"
                                     /\ line.id \in state.progress_completed_ids]
           /\ state' = update_progress_from_log_line(state, line)
           /\ fs' = write_log(fs, state, "line")
    /\ Quiet
    /\ UNCHANGED <<tasks, thr, fn, files>>

\* _pump_output, lines 1112-1119: one line is read from the pipe and, under
\* the lock, applied if the process is still the current one.  (Reading the
\* pipe touches nothing another thread sees, so read and lock section are
\* one step.)
PumpOutput(p) ==
    /\ tasks[p].started
    /\ procs[p].out # <<>>
    /\ LET line == Head(procs[p].out)
       IN  /\ procs' = [procs EXCEPT
                  ![p].out = Tail(@),
                  ![p].repeated = \/ @
                                  \/ /\ p = state.process
                                     /\ line.kind = "done"
                                     /\ line.id \in state.progress_completed_ids]
           /\ state' = IF p = state.process
                         THEN update_progress_from_log_line(state, line)
                         ELSE state
           /\ fs' = IF p = state.process THEN write_log(fs, state, "line") ELSE fs
    /\ Quiet
    /\ UNCHANGED <<tasks, thr, fn, files>>

\* A heartbeat that reports the completed count as it is.
HeartbeatProgressUnclamped(p) ==
    /\ tasks[p].hb = "sleep"
    /\ IF p # state.process \/ ~state.running
         THEN /\ tasks' = [tasks EXCEPT ![p].hb = "done"]
              /\ UNCHANGED <<state, fs>>
         ELSE /\ state' = [state EXCEPT !.ui_message =
                    IF state.resolved_mode = "segmented" /\ state.progress_total_segments > 0
                      THEN [text |-> "progress",
                            done |-> state.progress_completed_segments,
                            total |-> state.progress_total_segments]
                      ELSE Msg("elapsed")]
              /\ fs' = write_log(fs, state, "heartbeat")
              /\ UNCHANGED tasks
    /\ Quiet
    /\ UNCHANGED <<procs, thr, fn, files>>

\* A heartbeat that returns only once another process has been recorded.
HeartbeatProgressUntilReplaced(p) ==
    /\ tasks[p].hb = "sleep"
    /\ IF p # state.process /\ state.process # 0
         THEN /\ tasks' = [tasks EXCEPT ![p].hb = "done"]
              /\ UNCHANGED <<state, fs>>
         ELSE /\ state' = [state EXCEPT !.ui_message =
                    IF state.resolved_mode = "segmented" /\ state.progress_total_segments > 0
                      THEN [text |-> "progress",
                            done |-> Max(0, Min(state.progress_completed_segments,
                                                state.progress_total_segments)),
                            total |-> state.progress_total_segments]
                      ELSE Msg("elapsed")]
              /\ fs' = write_log(fs, state, "heartbeat")
              /\ UNCHANGED tasks
    /\ Quiet
    /\ UNCHANGED <<procs, thr, fn, files>>

\* _heartbeat_progress, lines 1121-1157: one wake-up whose interval has elapsed
HeartbeatProgress(p) ==
    /\ tasks[p].hb = "sleep"
    /\ IF p # state.process \/ ~state.running
         THEN /\ tasks' = [tasks EXCEPT ![p].hb = "done"]
              /\ UNCHANGED <<state, fs>>
         ELSE /\ state' = [state EXCEPT !.ui_message =
                    IF state.resolved_mode = "segmented" /\ state.progress_total_segments > 0
                      THEN [text |-> "progress",
                            done |-> Max(0, Min(state.progress_completed_segments,
                                                state.progress_total_segments)),
                            total |-> state.progress_total_segments]
                      ELSE Msg("elapsed")]
              /\ fs' = write_log(fs, state, "heartbeat")
              /\ UNCHANGED tasks
    /\ Quiet
    /\ UNCHANGED <<procs, thr, fn, files>>

\* What the tail of the log contains: the set of signature substrings in it.
LogTails == {{}, {"ggml-metal-device.m"}, {"no space left on device", "completed with warnings"}}

\* A classification that tests for the full disk before the missing model.
failure_guidance_disk_first(lower) ==
    IF "ggml-metal-device.m" \in lower
         \/ ("failed to process audio" \in lower /\ "vad" \in lower)
      THEN <<"vad_internal_error", "retry_without_vad">>
    ELSE IF "no space left on device" \in lower
      THEN <<"disk_full", "free_disk">>
    ELSE IF "model file not found" \in lower \/ "download example:" \in lower
      THEN <<"model_missing", "install_models">>
    ELSE IF "failed after" \in lower /\ "attempt" \in lower
      THEN <<"retries_exhausted", "lighter_preset">>
    ELSE IF "converting to 16khz wav" \in lower
            /\ ({"invalid data", "error while", "could not", "failed"} \cap lower) # {}
      THEN <<"conversion_failed", "other_format">>
    ELSE <<"generic", "check_log">>

\* _failure_guidance, lines 1159-1185: first matching signature wins
failure_guidance(lower) ==
    IF "ggml-metal-device.m" \in lower
         \/ ("failed to process audio" \in lower /\ "vad" \in lower)
      THEN <<"vad_internal_error", "retry_without_vad">>
    ELSE IF "model file not found" \in lower \/ "download example:" \in lower
      THEN <<"model_missing", "install_models">>
    ELSE IF "no space left on device" \in lower
      THEN <<"disk_full", "free_disk">>
    ELSE IF "failed after" \in lower /\ "attempt" \in lower
      THEN <<"retries_exhausted", "lighter_preset">>
    ELSE IF "converting to 16khz wav" \in lower
            /\ ({"invalid data", "error while", "could not", "failed"} \cap lower) # {}
      THEN <<"conversion_failed", "other_format">>
    ELSE <<"generic", "check_log">>

\* _wait_finish, line 1188: proc.wait() returns once the process has exited
WaitReturn(p) ==
    /\ tasks[p].wait = "wait"
    /\ procs[p].st = "exited"
    /\ tasks' = [tasks EXCEPT ![p].wait = "lock"]
    /\ Quiet
    /\ UNCHANGED <<state, procs, thr, fn, files, fs>>

\* Once the exit waiter has handled the exit nothing reads the exit code or
\* the environment of the Popen object again and no signal can reach the
\* reaped process: the record keeps the pipe only.
Forgotten(proc) ==
    [proc EXCEPT !.rc = 0, !.kind = "", !.env = <<>>, !.sigs = {}, !.grace = FALSE,
                 !.cancel_ok = FALSE, !.repeated = FALSE]

\* cleanup_dir(LOGS_DIR, LOG_RETENTION_SEC, skip_paths), lines 402-426, as
\* cleanup_stale_files calls it: the stale logs go, except the skipped one
cleanup_dir(disk, skip) ==
    [disk EXCEPT !.removed = @ \cup (disk.stale \ skip), !.stale = @ \cap skip]

\* An exit waiter that removes an empty output file however the run ended.
WaitFinishRemovesEmpty(p, tails) ==
    /\ tasks[p].wait = "lock"
    /\ tasks' = [tasks EXCEPT ![p].wait =
                     IF fs.up.seen /\ p = state.process THEN "sweep" ELSE "done"]
    /\ IF p # state.process
         THEN UNCHANGED <<state, fs>>
         ELSE \E tail \in tails, remove_ok \in BOOLEAN :
                LET rc == procs[p].rc
                    s1 == [state EXCEPT !.running = FALSE,
                                        !.finished_at = "t",
                                        !.process = 0]
                    guidance == failure_guidance(tail)
                    failed == state.status # "canceled" /\ rc # 0
                    fs1 == IF fs.output = "empty" /\ remove_ok
                             THEN [fs EXCEPT !.output = "absent"] ELSE fs
                IN  /\ state' =
                      IF state.status = "canceled"
                        THEN [s1 EXCEPT !.status = "canceled",
                                        !.ui_message = Msg("canceled")]
                      ELSE IF rc = 0
                        THEN [s1 EXCEPT !.status = "completed",
                                        !.ui_message =
                                            IF "completed with warnings" \in tail
                                              THEN Msg("completed_with_warnings")
                                              ELSE Msg("completed")]
                      ELSE [s1 EXCEPT !.status = "failed",
                                      !.last_error = "exit",
                                      !.force_cpu_mode =
                                          IF "ggml-metal-device.m" \in tail THEN TRUE ELSE @,
                                      !.failure_reason = guidance[1],
                                      !.failure_action = guidance[2],
                                      !.ui_message = Msg("failed")]
                    /\ fs' = IF fs.up.seen
                               THEN write_log(fs1, state, "finish")
                               ELSE cleanup_dir(write_log(fs1, state, "finish"),
                                                {state.log_file.id})
    /\ procs' = [procs EXCEPT ![p] = Forgotten(@)]
    /\ Quiet
    /\ UNCHANGED <<thr, fn, files>>

\* _wait_finish, lines 1189-1229: the lock section and, where the uploads
\* are not recorded, cleanup_stale_files with it
WaitFinish(p, tails) ==
    /\ tasks[p].wait = "lock"
    /\ tasks' = [tasks EXCEPT ![p].wait =
                     IF fs.up.seen /\ p = state.process THEN "sweep" ELSE "done"]
    /\ IF p # state.process
         THEN UNCHANGED <<state, fs>>
         ELSE \E tail \in tails, remove_ok \in BOOLEAN :
                LET rc == procs[p].rc
                    s1 == [state EXCEPT !.running = FALSE,
                                        !.finished_at = "t",
                                        !.process = 0]
                    guidance == failure_guidance(tail)
                    failed == state.status # "canceled" /\ rc # 0
                    fs1 == IF failed /\ fs.output = "empty" /\ remove_ok
                             THEN [fs EXCEPT !.output = "absent"] ELSE fs
                IN  /\ state' =
                      IF state.status = "canceled"
                        THEN [s1 EXCEPT !.status = "canceled",
                                        !.ui_message = Msg("canceled")]
                      ELSE IF rc = 0
                        THEN [s1 EXCEPT !.status = "completed",
                                        !.ui_message =
                                            IF "completed with warnings" \in tail
                                              THEN Msg("completed_with_warnings")
                                              ELSE Msg("completed")]
                      ELSE [s1 EXCEPT !.status = "failed",
                                      !.last_error = "exit",
                                      !.force_cpu_mode =
                                          IF "ggml-metal-device.m" \in tail THEN TRUE ELSE @,
                                      !.failure_reason = guidance[1],
                                      !.failure_action = guidance[2],
                                      !.ui_message = Msg("failed")]
                    /\ fs' = IF fs.up.seen
                               THEN write_log(fs1, state, "finish")
                               ELSE cleanup_dir(write_log(fs1, state, "finish"),
                                                {state.log_file.id})
    /\ procs' = [procs EXCEPT ![p] = Forgotten(@)]
    /\ Quiet
    /\ UNCHANGED <<thr, fn, files>>

----------------------------------------------------------------------------
(* cancel and snapshot *)

\* A cancel that finishes the run itself instead of leaving it to the waiter.
CancelMarkEndsRun(t) ==
    /\ thr[t].pc = "idle"
    /\ LET proc == state.process
       IN  IF proc = 0 \/ ~state.running
             THEN /\ Return(t, "cancel", FALSE, "no_job")
                  /\ UNCHANGED state
             ELSE /\ state' = [state EXCEPT !.status = "canceled",
                                            !.running = FALSE,
                                            !.finished_at = "t"]
                  /\ Goto(t, "cancel", "c_signal", <<>>, [proc |-> proc])
    /\ UNCHANGED <<procs, tasks, fn, files, fs>>

\* cancel, lines 1232-1236
CancelMark(t) ==
    /\ thr[t].pc = "idle"
    /\ LET proc == state.process
       IN  IF proc = 0 \/ ~state.running
             THEN /\ Return(t, "cancel", FALSE, "no_job")
                  /\ UNCHANGED state
             ELSE /\ state' = [state EXCEPT !.status = "canceled"]
                  /\ Goto(t, "cancel", "c_signal", <<>>, [proc |-> proc])
    /\ UNCHANGED <<procs, tasks, fn, files, fs>>

\* os.getpgid raises ProcessLookupError once the process has been reaped,
\* that is once proc.wait() has returned in the exit waiter.
Reaped(p) == tasks[p].wait \in {"lock", "sweep", "dirs", "done"}

\* cancel, lines 1238-1240 and 1244-1247: SIGTERM to the group, or the
\* exception handler when the process is gone
CancelSignal(t) ==
    /\ thr[t].pc = "c_signal"
    /\ LET proc == thr[t].loc.proc
       IN  IF ~Reaped(proc)
             THEN /\ procs' = [procs EXCEPT ![proc].sigs = @ \cup {"SIGTERM"}]
                  /\ Goto(t, "cancel", "c_msg", <<>>, thr[t].loc)
                  /\ UNCHANGED state
             ELSE /\ state' = [state EXCEPT !.status = "running"]
                  /\ Return(t, "cancel", FALSE, "cancel_failed")
                  /\ UNCHANGED procs
    /\ UNCHANGED <<tasks, fn, files, fs>>

\* cancel, lines 1241-1243
CancelDone(t) ==
    /\ thr[t].pc = "c_msg"
    /\ state' = [state EXCEPT !.ui_message = Msg("cancel_requested")]
    /\ procs' = [procs EXCEPT ![thr[t].loc.proc].cancel_ok =
                      IF tasks[thr[t].loc.proc].wait = "done" \/ resp = Unobserved
                        THEN @ ELSE TRUE]
    /\ Return(t, "cancel", TRUE, "canceled")
    /\ UNCHANGED <<tasks, fn, files, fs>>

\* The keys of the dictionary snapshot() builds under the lock.
SnapshotKeys == DOMAIN InitState \
    {"process", "progress_total_segments", "progress_completed_segments",
     "progress_completed_ids"}

\* A snapshot that consumes the message it shows.
SnapshotClearsMessage ==
    /\ snap' = Some([k \in SnapshotKeys |-> state[k]])
    /\ resp' = IF resp = Unobserved THEN Unobserved ELSE NoResp
    /\ state' = [state EXCEPT !.ui_message = Msg("")]
    /\ UNCHANGED <<procs, tasks, thr, fn, files, fs>>

\* snapshot, lines 1249-1292
Snapshot ==
    /\ snap' = Some([k \in SnapshotKeys |-> state[k]])
    /\ resp' = IF resp = Unobserved THEN Unobserved ELSE NoResp
    /\ UNCHANGED <<state, procs, tasks, thr, fn, files, fs>>

----------------------------------------------------------------------------

\* The steps of the request handlers, for given sets of requests and
\* environment answers.
Preflights(threads, forms, runs) ==
    \E t \in threads :
        \/ PreflightCheck(t, forms)
        \/ PreflightInput(t, runs)
        \/ PreflightStore(t)

Starts(threads, forms, installed, vad_models) ==
    \E t \in threads :
        \/ StartCheck(t, forms, installed)
        \/ StartPrev(t)
        \/ StartCfg(t, vad_models)
        \/ StartLaunch(t)
        \/ StartRecord(t)

Retries(threads, forms, disks) ==
    \E t \in threads :
        \/ RetryCheck(t, forms, disks)
        \/ RetrySeg(t)
        \/ RetryLaunch(t)
        \/ RetryRecord(t)

Cancels(threads) ==
    \E t \in threads : CancelMark(t) \/ CancelSignal(t) \/ CancelDone(t)

\* The process exits and the exit waiter handles it.
Exits(tails) ==
    \E p \in ProcIds : ProcExit(p) \/ WaitReturn(p) \/ WaitFinish(p, tails)

----------------------------------------------------------------------------
(* The store under concurrent requests: one diagnosed upload, one kind of  *)
(* start request and of retry request, processes that print nothing.       *)

OneUpload == {[priority |-> "balanced", selected_preset |-> "", upload |-> "a.wav"]}
Diagnosed == {Ended(0, JsonObject([verdict |-> "OK", duration_sec |-> Seconds(3600),
                                    recommended_preset |-> "x8",
                                    corrections |-> {"volume_normalize"}]))}
AutoStart == {[preset |-> "x4", auto_correction |-> TRUE, use_vad |-> TRUE,
               mode_strategy |-> "auto", custom_mode |-> "",
               custom_jobs |-> None, custom_segment_time |-> None, output_name |-> ""]}
FailedList == {[recovery_mode |-> "failed", recovery_ranges |-> <<>>,
                recovery_retry_count |-> None, recovery_preset |-> "",
                recovery_partial_output |-> "", recovery_output_name |-> "",
                recovery_segment_time |-> NoText]}

Requests ==
    \/ Preflights(Threads, OneUpload, Diagnosed)
    \/ Starts(Threads, AutoStart, {AllDeps}, {""})
    \/ Retries(Threads, FailedList, {DiskOk})
    \/ Cancels(Threads)

Next ==
    \/ Requests
    \/ Exits({{}})
    \/ \E p \in ProcIds : GraceElapse(p)

Spec == Init /\ [][Next]_vars

\* The same without the record of the responses and without the clock;
\* thread 1 diagnoses, starts, retries and cancels, thread 2 starts and
\* cancels.
Handler == {1}

InitQuiet ==
    /\ state = InitState
    /\ procs = [p \in ProcIds |-> NoProc]
    /\ tasks = [p \in ProcIds |-> NoTasks]
    /\ thr = [t \in Threads |-> Idle]
    /\ resp = Unobserved
    /\ snap = None
    /\ files = {}
    /\ fs = CleanDisk
    /\ fn = None

NextRun ==
    \/ Preflights(Handler, OneUpload, Diagnosed)
    \/ Starts(Threads, AutoStart, {AllDeps}, {""})
    \/ Retries(Handler, FailedList, {DiskOk})
    \/ Cancels(Threads)
    \/ Exits({{}})

SpecRun == InitQuiet /\ [][NextRun]_vars

----------------------------------------------------------------------------
(* C1.  At most one run is active at a time: two processes launched by the *)
(* store are never alive at the same moment, and every process whose exit  *)
(* is not handled yet is the current process of the store, so that its     *)
(* exit waiter will record its outcome.                                    *)

Alive == {p \in ProcIds : procs[p].st = "alive"}
Unhandled == {p \in ProcIds : tasks[p].wait \in {"wait", "lock"}}

C1_OneActiveRun ==
    /\ Cardinality(Alive) <= 1
    /\ \A p \in Unhandled : state.process = p

----------------------------------------------------------------------------
(* C2.  A start request issued while the status is running fails with the  *)
(* "already running" error, launches no process and leaves every field of  *)
(* the store unchanged.                                                    *)

\* The first step of start_with_form taken by thread t.
IsStartRequest(t) ==
    /\ thr[t].pc = "idle"
    /\ \/ thr'[t].pc = "s_prev"
       \/ resp'.t = t /\ resp'.op = "start"

C2_StartWhileRunningRejected ==
    [][\A t \in Threads :
          state.status = "running" /\ IsStartRequest(t)
            => /\ resp' = Resp(t, "start", FALSE, "already_running")
               /\ thr'[t].pc = "idle"
               /\ state' = state
               /\ procs' = procs]_vars

----------------------------------------------------------------------------
(* C3.  When the exit waiter handles the exit of the current process, the  *)
(* final status is canceled if a cancel() returned ok for that run before, *)
(* whatever the exit code; otherwise it is completed for exit code 0 and   *)
(* failed for any other.                                                   *)

\* The lock section of _wait_finish for process p, p being current.
IsExitHandled(p) ==
    /\ tasks[p].wait = "lock"
    /\ tasks'[p].wait = "done"
    /\ state.process = p

C3_ExitClassification ==
    [][\A p \in ProcIds :
          IsExitHandled(p)
            => state'.status = IF procs[p].cancel_ok THEN "canceled"
                               ELSE IF procs[p].rc = 0 THEN "completed"
                               ELSE "failed"]_vars

----------------------------------------------------------------------------
(* C4.  The status moves from running only to completed, failed or         *)
(* canceled, and a status of canceled, completed or failed changes only    *)
(* to running, and only by a successful start or retry.                    *)

Terminal == {"completed", "failed", "canceled"}

\* The last lock section of a successful start or retry.
IsRunRecorded ==
    \E t \in Threads : thr[t].pc \in {"s_record", "r_record"} /\ thr'[t].pc = "idle"

C4_StatusOrder ==
    [][/\ state.status = "running" /\ state'.status # "running"
          => state'.status \in Terminal
       /\ state.status \in Terminal /\ state'.status # state.status
          => state'.status = "running" /\ IsRunRecorded]_vars

----------------------------------------------------------------------------
(* C5.  When the process is still alive five seconds after cancel() sent   *)
(* SIGTERM to its group, SIGKILL has been sent to the group.               *)

C5_KillAfterGrace ==
    \A p \in ProcIds :
        procs[p].st = "alive" /\ procs[p].grace => "SIGKILL" \in procs[p].sigs

----------------------------------------------------------------------------
(* C6.  cancel() never waits for the process: each of its steps can be     *)
(* taken whatever the process does, none of them clears the running flag,  *)
(* releases the handle or sets the finish time, and these three change to  *)
(* their terminal values only in the lock section of the exit waiter.      *)

IsCancelStep(t) ==
    /\ thr'[t] # thr[t]
    /\ thr[t].op = "cancel" \/ thr'[t].op = "cancel"

IsRunEnded ==
    \/ state.running /\ ~state'.running
    \/ state.process # 0 /\ state'.process = 0
    \/ state.finished_at = "" /\ state'.finished_at # ""

C6_CancelNeverWaits ==
    /\ [](\A t \in Threads :
            /\ thr[t].pc = "c_signal" => ENABLED CancelSignal(t)
            /\ thr[t].pc = "c_msg" => ENABLED CancelDone(t))
    /\ [][/\ \A t \in Threads :
               IsCancelStep(t) => /\ state'.running = state.running
                                  /\ state'.process = state.process
                                  /\ state'.finished_at = state.finished_at
          /\ IsRunEnded => \E p \in ProcIds : IsExitHandled(p)]_vars

\* cancel() has returned ok while the process is alive and the run running
C6_Witness ==
    /\ state.status = "canceled"
    /\ state.running
    /\ state.process # 0
    /\ state.ui_message = Msg("cancel_requested")
    /\ procs[state.process].st = "alive"
    /\ "SIGTERM" \in procs[state.process].sigs
    /\ \A t \in Threads : thr[t].pc = "idle"

----------------------------------------------------------------------------
(* The store read by snapshot() while one handler thread (diagnosis,       *)
(* start, cancel) and the tasks of its runs write it, with every kind of   *)
(* form and of environment answer.                                         *)

NextSnapshot ==
    \/ Preflights(Handler, PreflightForms, PreflightOutcomes)
    \/ Starts(Handler, StartForms, AvailChoices, VadModelPaths)
    \/ Cancels(Handler)
    \/ Exits(LogTails)
    \/ \E p \in ProcIds : HeartbeatProgress(p)
    \/ Snapshot

SpecSnapshot == InitQuiet /\ [][NextSnapshot]_vars

(* C7.  snapshot() succeeds in every reachable state, changes no field of  *)
(* the store, and every value it returns is the value the field has in the *)
(* one state in which the call is made.                                    *)

C7_SnapshotConsistent ==
    /\ [](ENABLED Snapshot)
    /\ [][snap' # None
            => /\ state' = state
               /\ DOMAIN snap'[1] = SnapshotKeys
               /\ \A k \in SnapshotKeys : snap'[1][k] = state[k]]_vars

\* a snapshot taken between the lock sections of cancel(), during a run
C7_Witness ==
    /\ snap # None
    /\ snap[1].running
    /\ snap[1].status = "canceled"
    /\ snap[1].ui_message # Msg("cancel_requested")
    /\ thr[1].pc = "c_signal"

----------------------------------------------------------------------------
(* The progress tracker: the runs of one handler thread, whose processes   *)
(* print any sequence of at most MaxLines lines.                           *)

NextProgress ==
    \/ Preflights(Handler, OneUpload, Diagnosed)
    \/ Starts(Handler, AutoStart, {AllDeps}, {""})
    \/ Retries(Handler, FailedList, {DiskOk})
    \/ \E p \in ProcIds : ProcWrite(p, Lines) \/ PumpOutput(p)
    \/ Exits({{}})

SpecProgress == InitQuiet /\ [][NextProgress]_vars

(* C8.  The completed count is the size of the completed set, and within a *)
(* run neither decreases: the set only grows, until a successful start or  *)
(* retry resets it.                                                        *)

C8_CompletedMonotone ==
    /\ [](state.progress_completed_segments = Cardinality(state.progress_completed_ids))
    /\ [][~IsRunRecorded
            => /\ state.progress_completed_ids \subseteq state'.progress_completed_ids
               /\ state.progress_completed_segments <= state'.progress_completed_segments]_vars

\* two different segments were completed in the current run
C8_Witness ==
    /\ state.running
    /\ state.progress_completed_ids = {"001", "002"}
    /\ state.progress_completed_segments = 2

(* C9.  A "segment completed" line whose segment is already in the         *)
(* completed set leaves the set, the count and the declared total as they  *)
(* are.                                                                    *)

\* The line pump of process p takes the next line from the pipe.
IsLinePumped(p) == procs[p].out # <<>> /\ procs'[p].out = Tail(procs[p].out)

C9_CompletedLineIdempotent ==
    [][\A p \in ProcIds :
          /\ IsLinePumped(p)
          /\ p = state.process
          /\ Head(procs[p].out).kind = "done"
          /\ Head(procs[p].out).id \in state.progress_completed_ids
          => /\ state'.progress_completed_ids = state.progress_completed_ids
             /\ state'.progress_completed_segments = state.progress_completed_segments
             /\ state'.progress_total_segments = state.progress_total_segments]_vars

\* the completion line of segment 001 was pumped twice in the current run
C9_Witness ==
    /\ state.process # 0
    /\ procs[state.process].repeated
    /\ procs[state.process].wr = 2
    /\ procs[state.process].out = <<>>
    /\ state.progress_completed_ids = {"001"}
    /\ state.progress_completed_segments = 1

----------------------------------------------------------------------------
(* recommend_auto_mode on its own: the arguments are drawn at the start    *)
(* and the function is applied once.                                       *)

BadDuration == [kind |-> "bad", v |-> 0]

\* The bucket edges of the policy, in seconds, zero and a whole day.
DurEdges == {0, 15 * 60, 30 * 60, 60 * 60, 120 * 60, 24 * 60 * 60}

AutoDurations ==
    {NoDuration, BadDuration}
        \cup {Seconds(d) : d \in UNION {(e - DurSpread)..(e + DurSpread) : e \in DurEdges}}
AutoPresets == PRESETS \cup {""}
AutoPriorities == PRIORITIES \cup {"fastest"}
AutoCpuCounts == {0, 1, 4, HostCpuCount, 16, 24}

InitAuto ==
    /\ state = InitState
    /\ procs = [p \in ProcIds |-> NoProc]
    /\ tasks = [p \in ProcIds |-> NoTasks]
    /\ thr = [t \in Threads |-> Idle]
    /\ resp = NoResp
    /\ snap = None
    /\ files = {}
    /\ fs = CleanDisk
    /\ fn \in [duration_sec : AutoDurations, preset : AutoPresets,
               priority : AutoPriorities, cpu_count : AutoCpuCounts, result : {None}]

RecommendAutoMode ==
    /\ fn.result = None
    /\ fn' = [fn EXCEPT !.result =
                 Some(recommend_auto_mode(fn.duration_sec, fn.preset, fn.priority,
                                          fn.cpu_count))]
    /\ UNCHANGED <<state, procs, tasks, thr, resp, snap, files, fs>>

SpecAuto == InitAuto /\ [][RecommendAutoMode]_vars

(* C10.  For a duration below 900 seconds, a missing one or an unparsable  *)
(* one, recommend_auto_mode returns the single-pass mode with one job,     *)
(* whatever the preset, the priority and the cpu count.                    *)

C10_ShortIsSinglePass ==
    fn # None /\ fn.result # None
              /\ (fn.duration_sec.kind # "num" \/ fn.duration_sec.v < 900)
        => fn.result[1].mode = "single-pass" /\ fn.result[1].jobs = 1

\* 14 min 59 s of audio, fastest settings, many cores
C10_Witness ==
    /\ fn # None
    /\ fn.duration_sec = Seconds(899)
    /\ fn.preset = "x16"
    /\ fn.priority = "speed"
    /\ fn.cpu_count = 16
    /\ fn.result # None
    /\ fn.result[1].mode = "single-pass"

----------------------------------------------------------------------------
(* C11.  For a duration of 7200 seconds or more recommend_auto_mode        *)
(* returns the segmented mode with a job count in 4..8 and a segment time  *)
(* in 60..300, whatever the preset, the priority and the cpu count.        *)

IsLongInput == fn # None /\ fn.result # None
                         /\ fn.duration_sec.kind = "num" /\ fn.duration_sec.v >= 7200

C11_LongJobsFourToEight ==
    IsLongInput => /\ fn.result[1].mode = "segmented"
                   /\ fn.result[1].jobs \in 4..8
                   /\ fn.result[1].segment_time \in 60..300

\* The same with the job count in 2..8: the accuracy priority and the x1
\* preset each take one job off the 4 of a host with few cores.
C11_LongJobsTwoToEight ==
    IsLongInput => /\ fn.result[1].mode = "segmented"
                   /\ fn.result[1].jobs \in 2..8
                   /\ fn.result[1].segment_time \in 60..300

\* two hours of audio, accuracy first, 4 cores: 2 jobs of 150 s segments
C11_Witness ==
    /\ IsLongInput
    /\ fn.duration_sec = Seconds(7200)
    /\ fn.priority = "accuracy"
    /\ fn.preset = "x1"
    /\ fn.cpu_count = 4
    /\ fn.result[1].mode = "segmented"
    /\ fn.result[1].jobs = 2
    /\ fn.result[1].segment_time = 150

----------------------------------------------------------------------------
(* build_segment_ids_from_ranges on its own: a range text of at most       *)
(* MaxTokens tokens and a segment time are drawn at the start and the      *)
(* function is applied once.                                               *)

Secs(n) == <<Num(n)>>
Clock(h, m, s) == <<Num(h), Num(m), Num(s)>>

RangeEnds == {Secs(0), Clock(0, 10, 0), Clock(0, 12, 30)}
BareTexts ==
    RangeEnds \cup {Clock(0, 5, 0), <<Num(2), Num(0)>>, <<BadPart>>, <<ExpPart(1000)>>,
                    <<NanPart, Num(0)>>, <<Num(1), Num(2), Num(3), Num(4)>>}
RangeTokens ==
    {Bare(text) : text \in BareTexts}
        \cup {Range(a, b) : a \in RangeEnds, b \in RangeEnds}
        \cup {Range(Secs(0), Secs(5000)), Range(Secs(5001), Secs(0)),
              Range(<<>>, Secs(5)), Range(Secs(5), <<>>),
              Range(Secs(1), <<Num(2), Num(-3)>>),
              Range(<<InfPart, Num(0)>>, Secs(0)),
              Range(<<BadPart>>, <<Num(0), NanPart, Num(0)>>)}

RECURSIVE TokenSeqs(_)
TokenSeqs(n) ==
    IF n = 0 THEN {<<>>}
    ELSE LET shorter == TokenSeqs(n - 1)
         IN  shorter \cup {Append(q, x) : q \in {r \in shorter : Len(r) = n - 1},
                                          x \in RangeTokens}

RangeSegmentTimes == {0, 1, 60, 120}

InitRanges ==
    /\ state = InitState
    /\ procs = [p \in ProcIds |-> NoProc]
    /\ tasks = [p \in ProcIds |-> NoTasks]
    /\ thr = [t \in Threads |-> Idle]
    /\ resp = NoResp
    /\ snap = None
    /\ files = {}
    /\ fs = CleanDisk
    /\ fn \in [ranges_text : TokenSeqs(MaxTokens), segment_time : RangeSegmentTimes,
               result : {None}]

BuildSegmentIds ==
    /\ fn.result = None
    /\ fn' = [fn EXCEPT !.result =
                 Some(build_segment_ids_from_ranges(fn.ranges_text, fn.segment_time))]
    /\ UNCHANGED <<state, procs, tasks, thr, resp, snap, files, fs>>

SpecRanges == InitRanges /\ [][BuildSegmentIds]_vars

(* C12.  build_segment_ids_from_ranges agrees with the reference: an error *)
(* and no ids for a text without tokens, with a malformed token or with    *)
(* more than 5000 indices; otherwise the sorted duplicate-free list of the *)
(* indices floor(start/seg) .. floor((end-1)/seg) of all tokens, a bare    *)
(* time t being [t, t+1) and a range with end before start being swapped.  *)
(* ("00:10:00-00:12:30", 120) gives 5, 6 and ("00:05:00", 60) gives 5.     *)

\* A well-formed time: plain seconds, or two or three finite parts, none
\* negative.
RefWellFormed(text) ==
    \/ Len(text) = 1 /\ text[1].kind = "num" /\ text[1].v >= 0
    \/ /\ Len(text) \in {2, 3}
       /\ \A i \in 1..Len(text) : text[i].kind \in {"num", "exp"} /\ text[i].v >= 0

RefSeconds(text) ==
    IF Len(text) = 1 THEN text[1].v
    ELSE IF Len(text) = 2 THEN 60 * text[1].v + text[2].v
    ELSE 3600 * text[1].v + 60 * text[2].v + text[3].v

RefMalformed(token) ==
    ~RefWellFormed(token.left) \/ (token.dash /\ ~RefWellFormed(token.right))

RefIndices(token, seg) ==
    LET a == RefSeconds(token.left)
        b == IF token.dash THEN RefSeconds(token.right) ELSE a + 1
        start == IF b < a THEN b ELSE a
        end == IF b < a THEN a ELSE b
    IN  (start \div seg) .. ((end - 1) \div seg)

RefIds(tokens, seg) == UNION {RefIndices(tokens[i], seg) : i \in DOMAIN tokens}

C12_SegmentIdsAgree ==
    fn # None /\ fn.result # None /\ "ranges_text" \in DOMAIN fn /\ fn.segment_time > 0
      => LET tokens == fn.ranges_text
             seg == fn.segment_time
             r == fn.result[1]
             rejected == \/ tokens = <<>>
                         \/ \E i \in DOMAIN tokens : RefMalformed(tokens[i])
                         \/ Cardinality(RefIds(tokens, seg)) > 5000
         IN  /\ r.err # "raised"
             /\ rejected => r.err # "" /\ r.ids = <<>>
             /\ ~rejected => /\ r.err = ""
                             /\ \A i \in 1..(Len(r.ids) - 1) : r.ids[i] < r.ids[i + 1]
                             /\ {r.ids[i] : i \in DOMAIN r.ids} = RefIds(tokens, seg)
             /\ tokens = <<Range(Clock(0, 10, 0), Clock(0, 12, 30))>> /\ seg = 120
                  => r.ids = <<5, 6>>
             /\ tokens = <<Bare(Clock(0, 5, 0))>> /\ seg = 60 => r.ids = <<5>>

----------------------------------------------------------------------------
(* Recovery: one handler thread diagnoses, starts and retries, with every  *)
(* kind of retry form and of files found on disk.                          *)

TenToTwelveThirty == <<Range(Clock(0, 10, 0), Clock(0, 12, 30))>>

TimeRange(ranges, segment_time) ==
    [recovery_mode |-> "time_range", recovery_ranges |-> ranges,
     recovery_retry_count |-> Some(7), recovery_preset |-> "x8",
     recovery_partial_output |-> "", recovery_output_name |-> "",
     recovery_segment_time |-> segment_time]

RetryForms ==
    FailedList
        \cup {TimeRange(TenToTwelveThirty, text) :
                text \in {NoText, BadText, IntText(10), IntText(120)}}
        \cup {TimeRange(<<>>, NoText), TimeRange(<<Bare(<<BadPart>>)>>, IntText(120))}

RetryDisks ==
    {DiskOk,
     [DiskOk EXCEPT !.input = FALSE],
     [DiskOk EXCEPT !.script = FALSE],
     [DiskOk EXCEPT !.partial = FALSE],
     [DiskOk EXCEPT !.failed = FALSE],
     [DiskOk EXCEPT !.failed_count = 0],
     [DiskOk EXCEPT !.meta_segment_time = Some(90)],
     [DiskOk EXCEPT !.meta_segment_time = Some(10)]}

NextRetry ==
    \/ Preflights(Handler, OneUpload, Diagnosed)
    \/ Starts(Handler, StartForms, {AllDeps}, {""})
    \/ Retries(Handler, RetryForms, RetryDisks)
    \/ Exits({{}})

SpecRetry == Init /\ [][NextRetry]_vars

(* C13.  A retry in time_range mode with no segment time to resolve (no    *)
(* override in the form, no SEGMENT_TIME in the sidecar, no segmented run  *)
(* recalled by the store) fails with a validation error, launches no       *)
(* process, writes no targets file and leaves the store unchanged.         *)

\* Thread t is about to resolve the segment time of a time_range retry and
\* nothing provides one.
NoSegmentTime(t) ==
    /\ thr[t].pc = "r_seg"
    /\ thr[t].loc.mode = "time_range"
    /\ thr[t].form.recovery_segment_time = NoText
    /\ thr[t].loc.disk.meta_segment_time = None
    /\ ~(state.resolved_mode = "segmented" /\ state.resolved_segment_time > 0)

C13_NoSegmentTimeRejected ==
    [][\A t \in Threads :
          NoSegmentTime(t) /\ thr'[t] # thr[t]
            => /\ thr'[t].pc = "idle"
               /\ resp'.t = t /\ resp'.op = "retry" /\ ~resp'.ok
               /\ resp'.msg \in {"no_ranges", "no_segment_time"}
               /\ state' = state
               /\ procs' = procs
               /\ tasks' = tasks
               /\ files' = files]_vars

\* such a retry was refused after a run in recovery mode, with ranges given
C13_Witness ==
    /\ resp = Resp(1, "retry", FALSE, "no_segment_time")
    /\ state.resolved_mode = "recovery"
    /\ state.status \in Terminal
    /\ thr[1].pc = "idle"

----------------------------------------------------------------------------
(* Output paths.  A file name is a sequence of characters; "a", "t", "x"   *)
(* stand for letters and digits, " " for white space, "?" for any other    *)
(* character outside A-Za-z0-9._- .                                        *)

MaxName == 3

NameLimit == 120

SafeChars == {"a", "t", "x", "o", ".", "_", "-"}

TxtSuffix == <<".", "t", "x", "t">>

\* OUTPUTS_DIR (line 33), an absolute directory
OUTPUTS_DIR == <<"/", "o">>

Take(s, n) == SubSeq(s, 1, Min(n, Len(s)))

RECURSIVE StripLeft(_, _)
StripLeft(s, chars) ==
    IF s # <<>> /\ Head(s) \in chars THEN StripLeft(Tail(s), chars) ELSE s

RECURSIVE StripRight(_, _)
StripRight(s, chars) ==
    IF s # <<>> /\ s[Len(s)] \in chars THEN StripRight(SubSeq(s, 1, Len(s) - 1), chars)
    ELSE s

\* str.strip(): s without the leading and trailing characters of chars
Strip(s, chars) == StripRight(StripLeft(s, chars), chars)

isabs(s) == s # <<>> /\ Head(s) = "/"

\* os.path.basename: what follows the last "/"
RECURSIVE basename(_)
basename(s) ==
    IF \E i \in 1..Len(s) : s[i] = "/" THEN basename(Tail(s)) ELSE s

endswith(s, suffix) ==
    Len(s) >= Len(suffix) /\ SubSeq(s, Len(s) - Len(suffix) + 1, Len(s)) = suffix

\* re.sub(r"[^A-Za-z0-9._-]+", "_", s): every run of other characters
\* becomes one "_"
RECURSIVE SubUnsafe(_, _)
SubUnsafe(s, in_run) ==
    IF s = <<>> THEN <<>>
    ELSE IF Head(s) \in SafeChars THEN <<Head(s)>> \o SubUnsafe(Tail(s), FALSE)
    ELSE IF in_run THEN SubUnsafe(Tail(s), TRUE)
    ELSE <<"_">> \o SubUnsafe(Tail(s), TRUE)

\* lines 54-57
sanitize_filename(name, fallback) ==
    LET stripped == Strip(name, {" "})
        base == IF basename(stripped) # <<>> THEN basename(stripped) ELSE fallback
        cleaned == Strip(SubUnsafe(base, FALSE), {".", "_"})
    IN  Take(IF cleaned # <<>> THEN cleaned ELSE fallback, NameLimit)

\* os.path.join(a, b)
join(a, b) == IF isabs(b) THEN b ELSE a \o <<"/">> \o b

\* lines 323-331
resolve_output_path(name_or_path, fallback_name) ==
    LET raw == Strip(name_or_path, {" "})
        safe == sanitize_filename(IF raw # <<>> THEN raw ELSE fallback_name, fallback_name)
    IN  IF raw # <<>> /\ isabs(raw) THEN raw
        ELSE join(OUTPUTS_DIR, IF endswith(safe, TxtSuffix) THEN safe ELSE safe \o TxtSuffix)

NameChars == {"a", ".", "_", "-", " ", "/", "?"}

RECURSIVE Stems(_)
Stems(n) ==
    IF n = 0 THEN {<<>>}
    ELSE Stems(n - 1) \cup {s \o <<c>> : s \in {x \in Stems(n - 1) : Len(x) = n - 1},
                                          c \in NameChars}

\* the names typed into the forms: a stem, with or without .txt
Names == {stem \o ext : stem \in Stems(MaxName), ext \in {<<>>, TxtSuffix}}

\* "transcription_result.txt" and the base names of earlier outputs
FallbackNames ==
    {<<"a", "_", "a">> \o TxtSuffix, <<"a", " ", "a">> \o TxtSuffix,
     <<"a", "?">>, <<>>}

InitPaths ==
    /\ state = InitState
    /\ procs = [p \in ProcIds |-> NoProc]
    /\ tasks = [p \in ProcIds |-> NoTasks]
    /\ thr = [t \in Threads |-> Idle]
    /\ resp = NoResp
    /\ snap = None
    /\ files = {}
    /\ fs = CleanDisk
    /\ fn \in [name_or_path : Names, fallback_name : FallbackNames, path : {None}]

ResolveOutputPath ==
    /\ fn.path = None
    /\ fn' = [fn EXCEPT !.path = Some(resolve_output_path(fn.name_or_path, fn.fallback_name))]
    /\ UNCHANGED <<state, procs, tasks, thr, resp, snap, files, fs>>

SpecPaths == InitPaths /\ [][ResolveOutputPath]_vars

(* C14.  resolve_output_path returns an absolute input unchanged; for any  *)
(* other input and any fallback it returns a path directly in the output   *)
(* directory whose base name has only the characters A-Za-z0-9._- , no     *)
(* directory component, and ends in .txt.                                  *)

C14_OutputPathSafe ==
    ("path" \in DOMAIN fn /\ fn.path # None) =>
        LET path == fn.path[1]
            file == basename(path)
        IN  IF isabs(fn.name_or_path) THEN path = fn.name_or_path
            ELSE /\ path = OUTPUTS_DIR \o <<"/">> \o file
                 /\ \A i \in 1..Len(file) : file[i] \in SafeChars
                 /\ endswith(file, TxtSuffix)

----------------------------------------------------------------------------
(* The gate in front of a run: thread 1 diagnoses, with every form and     *)
(* every outcome of preflight.sh, thread 2 starts, with every form, every  *)
(* set of installed tools and every outcome of the launch.                 *)

Starter == {2}

NextGate ==
    \/ Preflights(Handler, PreflightForms, PreflightRuns)
    \/ Starts(Starter, StartForms, AvailChoices, VadModelPaths)
    \/ Exits({{}})

SpecGate == Init /\ [][NextGate]_vars

(* C15.  No run is started while the stored preflight result has verdict   *)
(* NOT_RECOMMENDED: a start request that finds this verdict fails before a *)
(* process is launched and leaves the store unchanged, and no start        *)
(* records a run while the store holds this verdict.                       *)

NotRecommended ==
    state.preflight_result # None /\ state.preflight_result[1].verdict = "NOT_RECOMMENDED"

C15_NotRecommendedBlocksStart ==
    [][\A t \in Threads :
          /\ NotRecommended /\ thr[t].pc = "s_cfg" /\ thr'[t] # thr[t]
               => /\ thr'[t].pc = "idle" /\ resp'.t = t /\ ~resp'.ok
                  /\ state' = state /\ procs' = procs
          /\ NotRecommended /\ thr[t].pc = "s_record"
               => state'.process = state.process]_vars

(* C16.  When preflight.sh exits nonzero, times out or prints nothing or   *)
(* no JSON object, the preflight request still succeeds: it records the    *)
(* input, stores no result and marks the diagnosis as skipped.  A start    *)
(* that finds the mark is not refused for lack of a diagnosis; a start     *)
(* that finds neither a result nor the mark is refused.                    *)

C16_FailedPreflightIsSkipped ==
    [][\A t \in Threads :
          /\ thr[t].pc = "pf_store" /\ thr'[t] # thr[t] /\ thr[t].loc.run \in FailedRuns
               => /\ resp' = Resp(t, "preflight", TRUE, "preflight")
                  /\ state'.input_file = thr[t].loc.input_path
                  /\ state'.input_name = thr[t].loc.input_name
                  /\ state'.preflight_result = None
                  /\ state'.preflight_skipped
          /\ thr[t].pc = "s_cfg" /\ thr'[t] # thr[t] /\ state.preflight_result = None
               => IF state.preflight_skipped
                    THEN ~(resp'.t = t /\ resp'.msg = "no_preflight")
                    ELSE thr'[t].pc = "idle" /\ resp'.t = t /\ ~resp'.ok
                         /\ state' = state /\ procs' = procs]_vars

\* a run started on a diagnosis that was skipped
C16_Witness ==
    /\ state.running /\ state.status = "running"
    /\ state.preflight_result = None /\ state.preflight_skipped
    /\ state.input_file # ""
    /\ resp = Resp(2, "start", TRUE, "started")

(* C17.  A start request that fails (run active, dependencies missing, no  *)
(* input, no diagnosis, verdict NOT_RECOMMENDED, launch error) returns its *)
(* error without having launched a process and without having changed the  *)
(* store; the error for missing dependencies names all of them.            *)

\* a step of the start request of thread t
IsStartStep(t) ==
    \/ thr[t].op = "start" /\ thr'[t] # thr[t]
    \/ thr[t].pc = "idle" /\ (thr'[t].op = "start" \/ (resp'.t = t /\ resp'.op = "start"))

C17_FailedStartLeavesNothing ==
    [][\A t \in Threads :
          IsStartStep(t) =>
            /\ thr[t].pc # "s_record" => state' = state /\ tasks' = tasks
            /\ procs' # procs => thr'[t].pc = "s_record"
            /\ thr[t].pc = "s_record" => resp' = Resp(t, "start", TRUE, "started")
            /\ thr'[t].pc = "idle" /\ thr[t].pc # "s_record"
                 => /\ resp'.t = t /\ resp'.op = "start" /\ ~resp'.ok
                    /\ resp'.msg \in {"already_running", "missing_dependencies", "no_input",
                                      "no_preflight", "not_recommended", "launch_failed"}
                    /\ resp'.msg = "missing_dependencies"
                         => \E avail \in AvailChoices :
                              /\ \A d \in AllDeps \ avail :
                                    \E i \in 1..Len(resp'.detail) : resp'.detail[i] = d
                              /\ \A i \in 1..Len(resp'.detail) : resp'.detail[i] \notin avail
                              /\ resp'.detail # <<>>]_vars

\* two tools are missing and the refusal names both, the store being as the
\* preflight left it
C17_Witness ==
    /\ resp.op = "start" /\ ~resp.ok /\ resp.msg = "missing_dependencies"
    /\ Len(resp.detail) = 2
    /\ state.input_file # "" /\ ~state.running
    /\ \A p \in ProcIds : procs[p].st = "none"

(* C18.  retry launches a recovery process only when no run is active, the *)
(* input, the partial output and retry_failed_segments.sh exist and, in    *)
(* failed mode, the failed_segments file exists and lists a segment; a     *)
(* retry that fails returns an error, launches nothing and leaves the      *)
(* store unchanged.                                                        *)

\* a step of the retry request of thread t
IsRetryStep(t) ==
    \/ thr[t].op = "retry" /\ thr'[t] # thr[t]
    \/ thr[t].pc = "idle" /\ (thr'[t].op = "retry" \/ (resp'.t = t /\ resp'.op = "retry"))

C18_RetryPreconditions ==
    [][\A t \in Threads :
          IsRetryStep(t) =>
            /\ procs' # procs
                 => /\ thr[t].pc = "r_launch" /\ thr'[t].pc = "r_record"
                    /\ ~state.running
                    /\ state.input_file # ""
                    /\ thr[t].loc.disk.input /\ thr[t].loc.disk.partial /\ thr[t].loc.disk.script
                    /\ thr[t].loc.mode = "failed"
                         => thr[t].loc.disk.failed /\ thr[t].loc.disk.failed_count >= 1
            /\ thr[t].pc # "r_record" => state' = state /\ tasks' = tasks
            /\ thr[t].pc = "r_record" => resp' = Resp(t, "retry", TRUE, "retry-started")
            /\ thr'[t].pc = "idle" /\ thr[t].pc # "r_record"
                 => resp'.t = t /\ resp'.op = "retry" /\ ~resp'.ok /\ procs' = procs]_vars

----------------------------------------------------------------------------
(* C19.  The configuration of an active run is immutable: from the step    *)
(* that makes a run running until its terminal transition, the input       *)
(* path, the input name, the preset and the priority in the store do not   *)
(* change, whatever preflight, start and retry requests are interleaved.   *)

RunConfiguration(s) ==
    [input_file |-> s.input_file, input_name |-> s.input_name,
     preset |-> s.preset, priority |-> s.priority]

C19_RunConfigurationImmutable ==
    [][state.status = "running" /\ state'.status = "running"
         => RunConfiguration(state') = RunConfiguration(state)]_vars

----------------------------------------------------------------------------
(* C20.  The mode decision recorded at the start of a run (resolved mode,  *)
(* jobs, segment time, reason, effective VAD, VAD model path) is not       *)
(* modified between the step that makes the run running and its terminal   *)
(* transition.                                                             *)

ModeDecision(s) ==
    [resolved_mode |-> s.resolved_mode, resolved_jobs |-> s.resolved_jobs,
     resolved_segment_time |-> s.resolved_segment_time,
     resolved_mode_reason |-> s.resolved_mode_reason,
     use_vad_effective |-> s.use_vad_effective, vad_model_path |-> s.vad_model_path]

C20_ModeDecisionFixed ==
    [][state.status = "running" /\ state'.status = "running"
         => ModeDecision(state') = ModeDecision(state)]_vars

----------------------------------------------------------------------------
(* C21.  Every launched run respects the bounds of the configuration: the  *)
(* jobs recorded and passed to the process are within 1..8, the segment    *)
(* time of a normal run within 30..600, and the segment time passed to a   *)
(* recovery run within 30..3600, whatever supplied it (the form, the       *)
(* sidecar, the run recalled by the store).  A variable that is not passed *)
(* is 0 here.                                                              *)

C21_ConfigurationBounds ==
    /\ state.status # "idle" /\ state.resolved_mode \in CUSTOM_MODES
         => state.resolved_jobs \in 1..8 /\ state.resolved_segment_time \in 30..600
    /\ \A p \in ProcIds :
         procs[p].st = "alive" =>
           /\ procs[p].env.WHISPER_JOBS \in 0..8
           /\ procs[p].kind = "transcribe"
                => procs[p].env.WHISPER_SEGMENT_TIME \in {0} \cup (30..600)
           /\ procs[p].kind = "retry"
                => procs[p].env.WHISPER_SEGMENT_TIME \in {0} \cup (30..3600)

----------------------------------------------------------------------------
(* Voice activity detection: one thread diagnoses a short or a long input, *)
(* starts with and without VAD, in auto and in both custom modes, with and *)
(* without a VAD model on disk, and retries.                               *)

ShortOrLong ==
    {Ended(0, JsonObject([verdict |-> "OK", duration_sec |-> Seconds(d),
                          recommended_preset |-> "", corrections |-> {}])) :
        d \in {600, 3600}}

VadForms ==
    {[preset |-> "x4", auto_correction |-> FALSE, use_vad |-> use_vad,
      mode_strategy |-> strategy, custom_mode |-> custom_mode,
      custom_jobs |-> None, custom_segment_time |-> None, output_name |-> ""] :
        use_vad \in BOOLEAN, strategy \in {"auto"}, custom_mode \in {""}}
    \cup
    {[preset |-> "x4", auto_correction |-> FALSE, use_vad |-> TRUE,
      mode_strategy |-> "custom", custom_mode |-> custom_mode,
      custom_jobs |-> None, custom_segment_time |-> None, output_name |-> ""] :
        custom_mode \in CUSTOM_MODES}

NextVad ==
    \/ Preflights(Handler, OneUpload, ShortOrLong)
    \/ Starts(Handler, VadForms, {AllDeps}, VadModelPaths)
    \/ Retries(Handler, FailedList, {DiskOk})
    \/ Exits({{}})

SpecVad == Init /\ [][NextVad]_vars

(* C22.  In every state effective VAD is on only if the resolved mode is   *)
(* single-pass and a VAD model path is recorded, and it is off for a       *)
(* recovery run.  A start that asks for VAD and resolves to segmented      *)
(* records the request, leaves effective VAD off and says so in the        *)
(* reason.                                                                 *)

InReason(s, note) ==
    \E i \in 1..Len(s.resolved_mode_reason) : s.resolved_mode_reason[i] = note

C22_VadOnlySinglePass ==
    /\ [](/\ state.use_vad_effective
               => state.resolved_mode = "single-pass" /\ state.vad_model_path # ""
          /\ state.resolved_mode = "recovery" => ~state.use_vad_effective)
    /\ [][\A t \in Threads :
             /\ thr[t].pc = "s_record" /\ thr'[t].pc = "idle"
             /\ thr[t].form.use_vad /\ state'.resolved_mode = "segmented"
             => /\ state'.use_vad
                /\ ~state'.use_vad_effective
                /\ InReason(state', "vad_single_pass_only")]_vars

\* VAD was asked for, the run is segmented, and the reason says why VAD is off
C22_Witness ==
    /\ state.status = "running" /\ state.resolved_mode = "segmented"
    /\ state.use_vad /\ ~state.use_vad_effective
    /\ InReason(state, "vad_single_pass_only")

----------------------------------------------------------------------------
(* Failures: one thread diagnoses, starts and retries; the log of a run    *)
(* that ends can hold any of the signatures _failure_guidance looks for.   *)

FailureTails ==
    {{}, {"ggml-metal-device.m"}, {"failed to process audio", "vad"},
     {"model file not found"}, {"no space left on device"},
     {"failed after", "attempt"}, {"converting to 16khz wav", "failed"},
     {"completed with warnings"}}

NextFailure ==
    \/ Preflights(Handler, OneUpload, Diagnosed)
    \/ Starts(Handler, AutoStart, {AllDeps}, {""})
    \/ Retries(Handler, FailedList, {DiskOk})
    \/ Exits(FailureTails)

SpecFailure == Init /\ [][NextFailure]_vars

(* C23.  Whenever the exit waiter diagnoses a failed run as the hardware   *)
(* or driver fault (the VAD internal error), it also sets the force-CPU    *)
(* flag: after a failed run whose recorded reason is that fault,           *)
(* force_cpu_mode is true.                                                 *)

C23_DriverFaultForcesCpu ==
    state.status = "failed" /\ state.failure_reason = "vad_internal_error"
        => state.force_cpu_mode

(* C24.  Once force_cpu_mode is set no operation clears it, and every run  *)
(* launched afterwards, normal or recovery, is launched with forced-CPU    *)
(* execution requested (WHISPER_FORCE_CPU).                                *)

C24_ForceCpuPersists ==
    [][state.force_cpu_mode
         => /\ state'.force_cpu_mode
            /\ \A p \in ProcIds :
                 procs[p].st = "none" /\ procs'[p].st = "alive"
                   => procs'[p].env.WHISPER_FORCE_CPU]_vars

----------------------------------------------------------------------------
(* The disk: one thread diagnoses, starts and retries; the process writes  *)
(* its output file, and logs that are not written to grow stale.           *)

\* The process creates its output file, writes to it or truncates it.
OutputWrite(p) ==
    /\ procs[p].st = "alive"
    /\ \E output \in {"empty", "data"} :
         /\ output # fs.output
         /\ fs' = [fs EXCEPT !.output = output]
    /\ Quiet
    /\ UNCHANGED <<state, procs, tasks, thr, fn, files>>

\* LOG_RETENTION_SEC (line 44) pass: every log is stale but the log of the
\* run that is running, which the heartbeat writes to every 10 s.
LogsAge ==
    /\ fs' = [fs EXCEPT !.stale =
                 {p \in ProcIds : /\ tasks[p].started
                                  /\ p \notin fs.removed
                                  /\ ~(state.running /\ state.log_file.id = p)}]
    /\ fs' # fs
    /\ Quiet
    /\ UNCHANGED <<state, procs, tasks, thr, fn, files>>

NextDisk ==
    \/ Preflights(Handler, OneUpload, Diagnosed)
    \/ Starts(Handler, AutoStart, {AllDeps}, {""})
    \/ Retries(Handler, FailedList, {DiskOk})
    \/ Cancels(Handler)
    \/ Exits({{}})
    \/ \E p \in ProcIds : OutputWrite(p)
    \/ LogsAge

SpecDisk == Init /\ [][NextDisk]_vars

(* C25.  A terminal transition never removes the log of the run, and it    *)
(* removes the output file only when the run ended failed and the file is  *)
(* empty: an output with data stays after a failure, and no output file is *)
(* removed on completion or cancellation.                                  *)

C25_TerminalKeepsEvidence ==
    [][\A p \in ProcIds :
          IsExitHandled(p) /\ p = state.process
            => /\ state.log_file.id \notin fs'.removed
               /\ fs'.output # fs.output
                    => /\ state'.status = "failed"
                       /\ fs.output = "empty" /\ fs'.output = "absent"
               /\ fs.output = "data" => fs'.output = "data"]_vars

\* a failed run whose empty output file was removed, an older log too
C25_Witness ==
    /\ state.status = "failed"
    /\ fs.output = "absent"
    /\ fs.removed # {}
    /\ state.log_file.id \notin fs.removed

----------------------------------------------------------------------------
(* C26.  Every line the process writes to its output is appended to the    *)
(* log and applied to the progress; none is dropped, the lines the pump    *)
(* has not read when the exit waiter makes the terminal transition         *)
(* included.                                                               *)

C26_NoLineDropped ==
    [][\A p \in ProcIds :
          procs[p].out # <<>> /\ procs'[p].out = Tail(procs[p].out)
            => /\ p = state.process
               /\ state' = update_progress_from_log_line(state, Head(procs[p].out))]_vars

-----------------------------------------------------------------------------
(* The tasks of a run that is no longer the current one.  Two handler      *)
(* threads start runs (two starts that overlap record two processes, the   *)
(* first of which is then not the current one), the first process prints   *)
(* completion lines, processes exit, and the run log on disk is observed:  *)
(* it holds the id of the log file last appended to and the writer of that *)
(* line.                                                                   *)

InitLogged ==
    /\ state = InitState
    /\ procs = [p \in ProcIds |-> NoProc]
    /\ tasks = [p \in ProcIds |-> NoTasks]
    /\ thr = [t \in Threads |-> Idle]
    /\ resp = Unobserved
    /\ snap = None
    /\ files = {}
    /\ fs = [CleanDisk EXCEPT !.log = EmptyLog]
    /\ fn = None

TaskLines == {DoneLine("001")}
FirstRun == {1}

NextTasks ==
    \/ Preflights(Handler, OneUpload, Diagnosed)
    \/ Starts(Threads, AutoStart, {AllDeps}, {""})
    \/ \E p \in FirstRun : ProcWrite(p, TaskLines)
    \/ \E p \in ProcIds : PumpOutput(p) \/ HeartbeatProgress(p)
    \/ Exits({{}})

SpecTasks == InitLogged /\ [][NextTasks]_vars

\* A step of one of the three tasks of process p.
IsTaskStep(p) ==
    \/ PumpOutput(p)
    \/ HeartbeatProgress(p)
    \/ WaitFinish(p, {{}})

(* C27.  A line pump, exit waiter or heartbeat whose process is not the    *)
(* one recorded in the store changes no field of the store and appends     *)
(* nothing to the log.                                                     *)
C27_StaleTaskIsInert ==
    [][\A p \in ProcIds :
         IsTaskStep(p) /\ p # state.process => state' = state /\ fs' = fs]_vars

\* the second run is running, untouched, while the heartbeat and the exit
\* waiter of the first have returned and the line the first process printed
\* has been read
C27_Witness ==
    /\ state.process = 2
    /\ state.running
    /\ tasks[1].hb = "done"
    /\ tasks[1].wait = "done"
    /\ procs[1].wr > 0
    /\ procs[1].out = <<>>
    /\ state.progress_completed_ids = {}
    /\ state.progress_total_segments = 0
    /\ fs.log = [file |-> 2, by |-> "start"]

-----------------------------------------------------------------------------
(* The lock of the store.  Thread 1 diagnoses, starts and retries, thread  *)
(* 2 cancels; the first process prints, processes exit and are waited     *)
(* for; the run log on disk is observed.                                   *)

NextLock ==
    \/ Preflights(Handler, OneUpload, Diagnosed)
    \/ Starts(Handler, AutoStart, {AllDeps}, {""})
    \/ Retries(Handler, FailedList, {DiskOk})
    \/ Cancels(Starter)
    \/ \E p \in FirstRun : ProcWrite(p, TaskLines)
    \/ \E p \in ProcIds : PumpOutput(p) \/ HeartbeatProgress(p)
    \/ Exits({{}})

SpecLock == InitLogged /\ [][NextLock]_vars

\* The positions from which a handler's next step is a `with self.lock:`
\* section and what it reads before it or returns after it: lines 642, 689
\* (preflight), 715, 739, 754, 859 (start), 928, 979, 1057 (retry), 1232,
\* 1241 (cancel).  The steps from "pf_input", "s_launch" and "r_launch" and the
\* signal sent from "c_signal" take no lock.
LockedFrom == {"idle", "pf_store", "s_prev", "s_cfg", "s_record",
               "r_seg", "r_record", "c_msg"}

\* A step that holds the lock: a lock section of a handler, the exception
\* handler of cancel (line 1245), or the lock section of a pump (line 1116),
\* a heartbeat (line 1124) or an exit waiter (line 1189).
HoldsLock ==
    \/ \E t \in Threads :
         /\ thr'[t] # thr[t]
         /\ \/ thr[t].pc \in LockedFrom
            \/ thr[t].pc = "c_signal" /\ thr'[t].pc = "idle"
    \/ \E p \in ProcIds :
         \/ procs[p].out # <<>> /\ procs'[p].out = Tail(procs[p].out)
         \/ tasks[p].hb = "sleep" /\ procs' = procs /\ thr' = thr
         \/ tasks[p].wait = "lock" /\ tasks'[p].wait = "done"

(* C28.  The store and the run log change only in a step that holds the    *)
(* lock, and a log line that reports a transition is appended by the step  *)
(* that makes it: the opening lines by the step that records the process,  *)
(* the closing line by the step that ends the run.                         *)
C28_WritesUnderLock ==
    [][/\ state' # state \/ fs'.log # fs.log => HoldsLock
       /\ fs'.log # fs.log /\ fs'.log.by \in {"start", "retry"}
            => /\ state'.process # state.process
               /\ state'.running
               /\ state'.log_file.id = fs'.log.file
       /\ fs'.log # fs.log /\ fs'.log.by = "finish"
            => state.running /\ ~state'.running /\ state.process # 0]_vars

\* a canceled run has ended and its closing line is the last of its log,
\* after the opening lines, a line of the process and the cancel request
C28_Witness ==
    /\ state.status = "canceled"
    /\ ~state.running
    /\ state.ui_message = Msg("canceled")
    /\ fs.log.by = "finish"
    /\ state.log_file.id = fs.log.file
    /\ state.progress_completed_segments = 1
    /\ thr[2].pc = "c_msg"

-----------------------------------------------------------------------------
(* The heartbeat.  Thread 1 diagnoses and starts; the first process prints *)
(* at most MaxBeatLines lines, announcements of the total and completions  *)
(* in any order, enough for more completions than the total announced.     *)

MaxBeatLines == 3
BeatLines == {TotalLine(1), DoneLine("001"), DoneLine("002")}

\* The process writes one more line to the pipe, at most `most` in all.
ProcPrint(p, lines, most) ==
    /\ procs[p].st = "alive"
    /\ procs[p].wr < most
    /\ \E line \in lines :
         procs' = [procs EXCEPT ![p].out = Append(@, line), ![p].wr = @ + 1]
    /\ Quiet
    /\ UNCHANGED <<state, tasks, thr, fn, files, fs>>

NextBeat ==
    \/ Preflights(Handler, OneUpload, Diagnosed)
    \/ Starts(Handler, AutoStart, {AllDeps}, {""})
    \/ \E p \in FirstRun : ProcPrint(p, BeatLines, MaxBeatLines)
    \/ \E p \in ProcIds : PumpOutput(p) \/ HeartbeatProgress(p)
    \/ Exits({{}})

SpecBeat == InitQuiet /\ [][NextBeat]_vars

(* C29.  The completed count a heartbeat reports lies between 0 and the    *)
(* total it reports, so that the remaining count, their difference, is     *)
(* never negative.                                                         *)
C29_ReportedDoneWithinTotal ==
    state.ui_message.text = "progress"
        => /\ 0 <= state.ui_message.done
           /\ state.ui_message.done <= state.ui_message.total
           /\ state.ui_message.total - state.ui_message.done >= 0

\* two distinct completions were counted, the total announced is 1, and the
\* heartbeat of the running process reports 1 of 1
C29_Witness ==
    /\ state.running
    /\ state.progress_completed_segments = 2
    /\ state.progress_total_segments = 1
    /\ state.ui_message = [text |-> "progress", done |-> 1, total |-> 1]

-----------------------------------------------------------------------------
(* C30.  For a duration of 900 seconds or more recommend_auto_mode returns *)
(* the segmented mode with a job count of at most half the CPU count and   *)
(* at most 8, and a segment time in 60..300, whatever the preset, the      *)
(* priority and the cpu count.  Half the CPU count is read as the function *)
(* itself computes it (a missing count is 4, a host has at least 2 CPUs    *)
(* and their half is at least 2), the reading most favourable to the claim.*)

HalfCpu(cpu_count) ==
    Max(2, Max(2, IF cpu_count = 0 THEN 4 ELSE cpu_count) \div 2)

C30_JobsWithinHalfCpu ==
    fn # None /\ fn.result # None
              /\ fn.duration_sec.kind = "num" /\ fn.duration_sec.v >= 900
        => /\ fn.result[1].mode = "segmented"
           /\ fn.result[1].jobs <= HalfCpu(fn.cpu_count)
           /\ fn.result[1].jobs <= 8
           /\ fn.result[1].segment_time \in 60..300

-----------------------------------------------------------------------------
(* The classification of a failure, on its own.  A log tail is the set of  *)
(* the substrings _failure_guidance looks for that occur in its lower-case *)
(* text; a text that holds "failed to process audio" or "failed after"     *)
(* holds "failed".                                                         *)

Substrings ==
    {"ggml-metal-device.m", "failed to process audio", "vad",
     "model file not found", "download example:", "no space left on device",
     "failed after", "attempt", "converting to 16khz wav", "invalid data",
     "error while", "could not", "failed"}

LowerTails ==
    {lower \in SUBSET Substrings :
        ({"failed to process audio", "failed after"} \cap lower) # {} => "failed" \in lower}

InitGuidance ==
    /\ state = InitState
    /\ procs = [p \in ProcIds |-> NoProc]
    /\ tasks = [p \in ProcIds |-> NoTasks]
    /\ thr = [t \in Threads |-> Idle]
    /\ resp = NoResp
    /\ snap = None
    /\ files = {}
    /\ fs = CleanDisk
    /\ fn \in [lower : LowerTails, result : {None}]

FailureGuidance ==
    /\ fn.result = None
    /\ fn' = [fn EXCEPT !.result = Some(failure_guidance(fn.lower))]
    /\ UNCHANGED <<state, procs, tasks, thr, resp, snap, files, fs>>

SpecGuidance == InitGuidance /\ [][FailureGuidance]_vars

\* The signatures in the declared order, each with its pair.
Signature(i, lower) ==
    CASE i = 1 -> \/ "ggml-metal-device.m" \in lower
                  \/ {"failed to process audio", "vad"} \subseteq lower
      [] i = 2 -> ({"model file not found", "download example:"} \cap lower) # {}
      [] i = 3 -> "no space left on device" \in lower
      [] i = 4 -> {"failed after", "attempt"} \subseteq lower
      [] i = 5 -> /\ "converting to 16khz wav" \in lower
                  /\ \E word \in {"invalid data", "error while", "could not", "failed"} :
                       word \in lower

SignaturePair ==
    <<(<<"vad_internal_error", "retry_without_vad">>),
      (<<"model_missing", "install_models">>),
      (<<"disk_full", "free_disk">>),
      (<<"retries_exhausted", "lighter_preset">>),
      (<<"conversion_failed", "other_format">>)>>

Matching(lower) == {i \in 1..5 : Signature(i, lower)}

(* C31.  The pair returned for a log tail is that of the earliest          *)
(* signature, in the declared order, that matches it, and the generic pair *)
(* is returned exactly when no signature matches.                          *)
C31_FirstSignatureWins ==
    fn # None /\ fn.result # None
        => LET matching == Matching(fn.lower)
           IN  /\ matching # {}
                    => \E i \in matching :
                         /\ \A j \in matching : i <= j
                         /\ fn.result[1] = SignaturePair[i]
               /\ fn.result[1] = <<"generic", "check_log">> <=> matching = {}

\* a tail with the missing model, the full disk and a failed conversion is
\* classified as the missing model
C31_Witness ==
    /\ fn # None
    /\ fn.lower = {"model file not found", "no space left on device",
                   "converting to 16khz wav", "failed"}
    /\ fn.result = Some(<<"model_missing", "install_models">>)

-----------------------------------------------------------------------------
(* C32.  The segment time of a time_range retry is the explicit override   *)
(* if one is given, otherwise the SEGMENT_TIME of the sidecar if present    *)
(* and positive, otherwise the resolved segment time of the run that       *)
(* produced the partial output.  The store tells that this run was         *)
(* segmented by its job count: a single-pass run records 1 job, a          *)
(* recovery run leaves the job count and the segment time as they were.    *)

\* Thread t, in a time_range retry with ranges, takes the step that chooses
\* the segment time.
IsSegmentTimeChosen(t) ==
    /\ thr[t].pc = "r_seg"
    /\ thr[t].loc.mode = "time_range"
    /\ thr[t].loc.ranges_text # <<>>
    /\ thr'[t] # thr[t]

C32_SegmentTimePriority ==
    [][\A t \in Threads :
         IsSegmentTimeChosen(t) =>
           LET l == thr[t].loc
               meta == l.disk.meta_segment_time
               known == \/ l.segment_time_override # 0
                        \/ meta # None /\ meta[1] > 0
                        \/ state.resolved_jobs > 1
               wanted == IF l.segment_time_override # 0 THEN l.segment_time_override
                         ELSE IF meta # None /\ meta[1] > 0 THEN meta[1]
                         ELSE state.resolved_segment_time
           IN  known =>
                 /\ thr'[t].pc = "r_launch" => thr'[t].loc.segment_time_effective = wanted
                 /\ thr'[t].pc = "idle" => resp'.msg # "no_segment_time"]_vars

(* C39.  Launching a recovery run does not change the segment time a       *)
(* time_range retry recalls from the store: what lines 979-981 read after  *)
(* the run is recorded is what they read before.                           *)

seg_from_state(s) ==
    IF s.resolved_mode = "segmented"
      THEN parse_int_clamped(Some(s.resolved_segment_time), 0, 0, 3600)
      ELSE 0

C39_RecallSurvivesRecovery ==
    [][\A t \in Threads :
         thr[t].pc = "r_record" /\ thr'[t].pc = "idle"
           => seg_from_state(state') = seg_from_state(state)]_vars

-----------------------------------------------------------------------------
(* The sweep of the upload and log directories.  cleanup_stale_files is    *)
(* called after the lock section of the exit waiter: it reads the input    *)
(* file and the log file from the store under the lock, releases the lock  *)
(* and removes from both directories what is too old and not among the     *)
(* two.  One thread uploads and diagnoses, starts and retries; uploads and *)
(* logs that are not written to grow old.                                  *)

\* cleanup_stale_files, lines 521-529: the skip set
SweepSkip(p) ==
    /\ tasks[p].wait = "sweep"
    /\ tasks' = [tasks EXCEPT ![p].wait = "dirs",
                              ![p].skip = [input |-> state.input_file,
                                           log |-> state.log_file.id]]
    /\ Quiet
    /\ UNCHANGED <<state, procs, thr, fn, files, fs>>

\* cleanup_dir(UPLOADS_DIR, UPLOAD_RETENTION_SEC, skip_paths), lines 402-426
cleanup_uploads(disk, skip) ==
    [disk EXCEPT !.up.gone = @ \cup (disk.up.old \ skip), !.up.old = @ \cap skip]

\* cleanup_stale_files, lines 530-531: the two directories
SweepDirs(p) ==
    /\ tasks[p].wait = "dirs"
    /\ tasks' = [tasks EXCEPT ![p].wait = "done", ![p].skip = NoSkip]
    /\ fs' = cleanup_dir(cleanup_uploads(fs, {tasks[p].skip.input}), {tasks[p].skip.log})
    /\ Quiet
    /\ UNCHANGED <<state, procs, thr, fn, files>>

\* UPLOAD_RETENTION_SEC (line 43) pass since the last upload.
UploadsAge ==
    /\ fs.up.fresh # {}
    /\ fs' = [fs EXCEPT !.up.old = @ \cup fs.up.fresh, !.up.fresh = {}]
    /\ Quiet
    /\ UNCHANGED <<state, procs, tasks, thr, fn, files>>

SweepUploads ==
    {[priority |-> "balanced", selected_preset |-> "", upload |-> name] :
        name \in {"a.wav", "b.wav", ""}}

InitSweep ==
    /\ state = InitState
    /\ procs = [p \in ProcIds |-> NoProc]
    /\ tasks = [p \in ProcIds |-> NoTasks]
    /\ thr = [t \in Threads |-> Idle]
    /\ resp = Unobserved
    /\ snap = None
    /\ files = {}
    /\ fs = [CleanDisk EXCEPT !.up = NoUploads]
    /\ fn = None

NextSweep ==
    \/ Preflights(Handler, SweepUploads, Diagnosed)
    \/ Starts(Handler, AutoStart, {AllDeps}, {""})
    \/ Retries(Handler, FailedList, {DiskOk})
    \/ Exits({{}})
    \/ \E p \in ProcIds : SweepSkip(p) \/ SweepDirs(p)
    \/ UploadsAge
    \/ LogsAge

SpecSweep == InitSweep /\ [][NextSweep]_vars

\* The run recorded last: the active one, or else the most recent.
IsLastRun(p) ==
    /\ tasks[p].started
    /\ \A q \in ProcIds : q > p => ~tasks[q].started

(* C33.  The input file and the log file of the run recorded last, active  *)
(* or ended, are never among the files the sweep has removed.              *)
C33_SweepKeepsReferenced ==
    \A p \in ProcIds :
        IsLastRun(p) => /\ procs[p].input \notin fs.up.gone
                        /\ p \notin fs.removed

-----------------------------------------------------------------------------
(* C34.  A stored preflight result is never cleared: once the store holds  *)
(* a preflight result, every later state holds one, whatever requests      *)
(* follow, a diagnosis that fails included.                                *)
C34_PreflightResultKept ==
    [][state.preflight_result # None => state'.preflight_result # None]_vars

-----------------------------------------------------------------------------
(* The input file and its diagnosis.  Both threads upload and diagnose,    *)
(* thread 2 also starts; what preflight.sh reports depends on the file it  *)
(* is given: an hour of audio in a.wav, ten minutes in b.wav.              *)

Report(name) ==
    Ended(0, JsonObject([verdict |-> "OK",
                         duration_sec |-> Seconds(IF name = "a.wav" THEN 3600 ELSE 600),
                         recommended_preset |-> "", corrections |-> {}]))

ReportedRuns == {Report("a.wav"), Report("b.wav"), TimedOut}

\* preflight.sh runs on the input path of the request
DiagnoseFile(t) ==
    /\ PreflightInput(t, ReportedRuns)
    /\ thr'[t].pc = "pf_store"
         => thr'[t].loc.run \in {TimedOut, Report(thr'[t].loc.input_path)}

NextPair ==
    \/ \E t \in Threads :
         PreflightCheck(t, SweepUploads) \/ DiagnoseFile(t) \/ PreflightStore(t)
    \/ Starts(Starter, AutoStart, {AllDeps}, {""})
    \/ Exits({{}})

SpecPair == InitQuiet /\ [][NextPair]_vars

(* C40.  The preflight result in the store is the result of diagnosing the *)
(* input file in the store.                                                *)
C40_ResultOfStoredInput ==
    state.preflight_result # None
        => state.preflight_result = run_preflight(Report(state.input_file))

-----------------------------------------------------------------------------
(* The desktop GUI, src/whisper_gui.py.  WhisperApp keeps its run in       *)
(* three attributes, process, is_running and cancel_requested; the Tk main *)
(* thread runs start_transcription, cancel_transcription and the callback  *)
(* on_process_finished one at a time, a worker thread runs run_process.    *)
(* The application is held in fn:                                          *)
(*   main: what the main thread is in ("idle" is the event loop, "polling" *)
(*         the 5 s loop of cancel_transcription, "final" its last test);   *)
(*   polls: sleeps taken in that loop;                                     *)
(*   worker: "launch" before Popen, "pump" until the process is waited     *)
(*         for, "finished" once on_process_finished is queued;             *)
(*   child: the process, its exit code and the signals sent to its group;  *)
(*   runs: runs started so far.                                            *)

MaxPolls == 2

NoChild == [st |-> "none", rc |-> 0, sigs |-> {}]

WhisperApp ==
    [ process |-> FALSE, is_running |-> FALSE, cancel_requested |-> FALSE,
      status_lbl |-> "", main |-> "idle", polls |-> 0,
      worker |-> "none", retcode |-> 0, child |-> NoChild, runs |-> 0 ]

InitApp ==
    /\ state = InitState
    /\ procs = [p \in ProcIds |-> NoProc]
    /\ tasks = [p \in ProcIds |-> NoTasks]
    /\ thr = [t \in Threads |-> Idle]
    /\ resp = NoResp
    /\ snap = None
    /\ files = {}
    /\ fs = CleanDisk
    /\ fn = WhisperApp

AppStep(app) ==
    /\ fn' = app
    /\ UNCHANGED <<state, procs, tasks, thr, resp, snap, files, fs>>

\* start_transcription, lines 262-361 (a request with valid fields)
start_transcription ==
    /\ fn.main = "idle"
    /\ ~fn.is_running
    /\ fn.runs < MaxProcs
    /\ AppStep([fn EXCEPT !.cancel_requested = FALSE, !.is_running = TRUE,
                          !.status_lbl = "running", !.worker = "launch",
                          !.child = NoChild, !.runs = @ + 1])

\* run_process, lines 364-372 and 380-382: Popen, or the exception handler
run_process ==
    /\ fn.worker = "launch"
    /\ \/ AppStep([fn EXCEPT !.process = TRUE, !.worker = "pump",
                             !.child = [st |-> "alive", rc |-> 0, sigs |-> {}]])
       \/ AppStep([fn EXCEPT !.worker = "finished", !.retcode = -1])

\* The process exits, on its own or because of a signal; SIGKILL cannot be
\* ignored, SIGTERM can.
ChildExit ==
    /\ fn.child.st = "alive"
    /\ \E rc \in ExitCodes :
         AppStep([fn EXCEPT !.child.st = "exited", !.child.rc = rc])

\* run_process, lines 374-379: the pipe is at its end, wait() returns and
\* the callback is queued
process_wait ==
    /\ fn.worker = "pump"
    /\ fn.child.st = "exited"
    /\ AppStep([fn EXCEPT !.worker = "finished", !.retcode = fn.child.rc])

\* on_process_finished, lines 384-402, run by the event loop
on_process_finished ==
    /\ fn.main = "idle"
    /\ fn.worker = "finished"
    /\ AppStep([fn EXCEPT !.process = FALSE, !.is_running = FALSE,
                          !.status_lbl = IF fn.cancel_requested THEN "canceled"
                                         ELSE IF fn.retcode = 0 THEN "completed"
                                         ELSE "failed",
                          !.cancel_requested = FALSE, !.worker = "none"])

\* A cancel that sends the kill signal right after the termination signal.
cancel_transcription_kills_at_once ==
    /\ fn.main = "idle"
    /\ fn.process /\ fn.is_running
    /\ IF fn.worker = "finished"
         THEN AppStep([fn EXCEPT !.cancel_requested = TRUE])
         ELSE AppStep([fn EXCEPT !.cancel_requested = TRUE,
                                 !.child.sigs = @ \cup {"SIGTERM", "SIGKILL"},
                                 !.main = "polling", !.polls = 0])

\* cancel_transcription, lines 404-414: the flag and SIGTERM to the group;
\* os.getpgid raises once the worker has waited for the process
cancel_transcription ==
    /\ fn.main = "idle"
    /\ fn.process /\ fn.is_running
    /\ IF fn.worker = "finished"
         THEN AppStep([fn EXCEPT !.cancel_requested = TRUE])
         ELSE AppStep([fn EXCEPT !.cancel_requested = TRUE,
                                 !.child.sigs = @ \cup {"SIGTERM"},
                                 !.main = "polling", !.polls = 0])

\* cancel_transcription, lines 415-418: one turn of the loop before the
\* deadline, or the deadline
cancel_poll ==
    /\ fn.main = "polling"
    /\ \/ /\ fn.child.st = "exited"
          /\ AppStep([fn EXCEPT !.main = "idle"])
       \/ /\ fn.child.st = "alive"
          /\ fn.polls < MaxPolls
          /\ AppStep([fn EXCEPT !.polls = @ + 1])
       \/ AppStep([fn EXCEPT !.main = "final"])

\* cancel_transcription, lines 420-422: SIGKILL if poll() still returns None
cancel_kill ==
    /\ fn.main = "final"
    /\ IF fn.child.st = "alive"
         THEN AppStep([fn EXCEPT !.child.sigs = @ \cup {"SIGKILL"}, !.main = "idle"])
         ELSE AppStep([fn EXCEPT !.main = "idle"])

NextApp ==
    \/ start_transcription
    \/ run_process
    \/ ChildExit
    \/ process_wait
    \/ on_process_finished
    \/ cancel_transcription
    \/ cancel_poll
    \/ cancel_kill

SpecApp == InitApp /\ [][NextApp]_vars

(* C35.  The desktop cancel sends SIGTERM first; it sends SIGKILL only     *)
(* after SIGTERM, after its 5 s loop has reached the deadline, and to a    *)
(* process that is still alive.  A run that ends with the cancel flag set  *)
(* is reported as canceled whatever its exit code, and no run starts with  *)
(* the flag set.                                                           *)
C35_DesktopCancel ==
    /\ []("SIGKILL" \in fn.child.sigs => "SIGTERM" \in fn.child.sigs)
    /\ [][/\ "SIGKILL" \notin fn.child.sigs /\ "SIGKILL" \in fn'.child.sigs
             => /\ "SIGTERM" \in fn.child.sigs
                /\ fn.main = "final"
                /\ fn.child.st = "alive"
          /\ fn.is_running /\ ~fn'.is_running /\ fn.cancel_requested
             => fn'.status_lbl = "canceled"
          /\ ~fn.is_running /\ fn'.is_running => ~fn'.cancel_requested
          /\ ~fn'.is_running => ~fn'.cancel_requested]_vars

\* the second run was canceled: its process ignored SIGTERM, was killed at
\* the deadline and exited with code 0, and the run is reported as canceled
C35_Witness ==
    /\ fn.runs = 2
    /\ fn.status_lbl = "canceled"
    /\ fn.child.sigs = {"SIGTERM", "SIGKILL"}
    /\ fn.child = [st |-> "exited", rc |-> 0, sigs |-> {"SIGTERM", "SIGKILL"}]
    /\ ~fn.is_running
    /\ ~fn.cancel_requested

-----------------------------------------------------------------------------
(* C36.  Whenever the running flag is false and no process handle is       *)
(* recorded, the status is idle, completed, failed or canceled, never      *)
(* running, in every interleaving of cancel() with the exit waiter.        *)
C36_RunningStatusHasRun ==
    ~state.running /\ state.process = 0
        => state.status \in {"idle", "completed", "failed", "canceled"}

(* C38.  A failure diagnosis is present exactly when the status is failed: *)
(* failure_reason and last_error are non-empty iff the status is failed.   *)
C38_DiagnosisIffFailed ==
    /\ state.failure_reason # "" <=> state.status = "failed"
    /\ state.last_error # "" <=> state.status = "failed"

-----------------------------------------------------------------------------
(* Termination.  Starts on one server thread, retries and cancels on the   *)
(* other, and the exit waiter and heartbeat of every run, under the        *)
(* assumptions that every launched process exits and that the exit waiter  *)
(* and the heartbeat of every run are scheduled: they are daemon threads   *)
(* started by start_with_form and retry_failed_with_form, the waiter       *)
(* blocks in proc.wait() only, the heartbeat in time.sleep() only.         *)

NextLive ==
    \/ Preflights(Handler, OneUpload, Diagnosed)
    \/ Starts(Handler, AutoStart, {AllDeps}, {""})
    \/ Retries(Starter, FailedList, {DiskOk})
    \/ Cancels(Starter)
    \/ Exits({{}})
    \/ \E p \in ProcIds : HeartbeatProgress(p)

Fairness ==
    \A p \in ProcIds :
        /\ WF_vars(ProcExit(p))
        /\ WF_vars(WaitReturn(p))
        /\ WF_vars(WaitFinish(p, {{}}))
        /\ WF_vars(HeartbeatProgress(p))

SpecLive == InitQuiet /\ [][NextLive]_vars /\ Fairness

(* C37.  Every recorded start or retry is eventually followed by a state   *)
(* in which the running flag is false, the process handle is released,     *)
(* the finish time is set and the status is completed, failed or canceled; *)
(* and the heartbeat of a run that is no longer current eventually ends.   *)
C37_RunsEnd ==
    /\ (state.running /\ state.process # 0)
           ~> /\ ~state.running
              /\ state.process = 0
              /\ state.finished_at # ""
              /\ state.status \in {"completed", "failed", "canceled"}
    /\ \A p \in ProcIds :
           (tasks[p].hb = "sleep" /\ (state.process # p \/ ~state.running))
               ~> tasks[p].hb = "done"

\* the second run has ended as failed and both heartbeats have returned
C37_Witness ==
    /\ ~state.running
    /\ state.process = 0
    /\ state.finished_at # ""
    /\ state.status = "failed"
    /\ \A p \in ProcIds : tasks[p].hb = "done" /\ tasks[p].wait = "done"

====
